---- MODULE Spec2Model ----
(***************************************************************************)
(* A model of actix-json-gen: the batch request handler of src/main.rs     *)
(* (generate_data / generate_chunk), the streaming record generator of     *)
(* src/processing.rs (StreamGenerator) and the bounded chunk pipeline that *)
(* the specification describes around it.                                   *)
(*                                                                         *)
(* Bytes are one-character strings ("NUL" stands for the zero byte), a     *)
(* byte string is a sequence of bytes, and an output buffer is a sequence  *)
(* of segments: the bytes one write appended, tagged with the statement    *)
(* that wrote them.                                                         *)
(***************************************************************************)
EXTENDS Integers, Sequences, FiniteSets, TLC

\* ------------------------------------------------------------------ bounds
MaxThreads == 2
MaxSeed == 1
QueueFactor == 1
LargeTarget == 36000
LongLen == 1100
MaxCalls == 2
MaxTime == 520

\* ------------------------------------------------------- program constants
OPTIMAL_CHUNK_SIZE == 16384
MAX_RECORDS_PER_CHUNK == 268435456
BYTE_COUNT == 32
POOL_SIZE == 1000
COUNTRY_POOL_SIZE == 50
BYTE_SIZE == 1048576

\* The target sizes (bytes) and seeds a request is drawn from.
Targets == {0, 2, 3, 50, 150, 260, 420}
Seeds == 0..MaxSeed
Threads == 1..MaxThreads

\* ------------------------------------------------------------------- bytes
Q == "\""
NL == "\n"
SP == " "
NUL == "NUL"
Digits == <<"0", "1", "2", "3", "4", "5", "6", "7", "8", "9">>

Min(a, b) == IF a < b THEN a ELSE b

RECURSIVE ItoA(_)
\* Decimal rendering of a natural number (u32/u64 to_string, itoa::Buffer).
ItoA(n) == IF n < 10 THEN <<Digits[n + 1]>> ELSE ItoA(n \div 10) \o <<Digits[(n % 10) + 1]>>

\* A revenue is a float with one fractional digit: [units, tenths].
\* f32::to_string prints an integral value without a fraction.
F32ToString(rev) ==
    IF rev.tenths = 0 THEN ItoA(rev.units)
    ELSE ItoA(rev.units) \o <<".">> \o <<Digits[rev.tenths + 1]>>

\* dtoa::Buffer::format always prints a fraction (".0" for an integral value).
DtoaFormat(rev) == ItoA(rev.units) \o <<".">> \o <<Digits[rev.tenths + 1]>>

Seg(tag, bytes) == [tag |-> tag, bytes |-> bytes]

RECURSIVE LenRange(_, _, _)
\* The bytes held by segments lo..hi of a buffer.
LenRange(buf, lo, hi) ==
    IF lo > hi THEN 0
    ELSE IF lo = hi THEN Len(buf[lo].bytes)
    ELSE LET mid == (lo + hi) \div 2
         IN  LenRange(buf, lo, mid) + LenRange(buf, mid + 1, hi)

\* Vec<u8>::len / BytesMut::len of a buffer kept as segments.
BufLen(buf) == LenRange(buf, 1, Len(buf))

RECURSIVE FlattenRange(_, _, _)
FlattenRange(buf, lo, hi) ==
    IF lo > hi THEN <<>>
    ELSE IF lo = hi THEN buf[lo].bytes
    ELSE LET mid == (lo + hi) \div 2
         IN  FlattenRange(buf, lo, mid) \o FlattenRange(buf, mid + 1, hi)

\* The bytes of a buffer, in order.
Flatten(buf) == FlattenRange(buf, 1, Len(buf))

RECURSIVE Concat(_)
\* The concatenation of a sequence of buffers.
Concat(bufs) == IF bufs = <<>> THEN <<>> ELSE Head(bufs) \o Concat(Tail(bufs))

Tags(buf) == [k \in 1..Len(buf) |-> buf[k].tag]

\* -------------------------------------------------------------- dictionary
\* DataPools: names, industries, cities, states hold POOL_SIZE entries and
\* countries COUNTRY_POOL_SIZE; the entries repeat with period 3.
PoolNames(i) ==
    CASE i % 3 = 0 -> <<"A", "c", "m", "e">>
      [] i % 3 = 1 -> <<"B", "o", "l", "t", " ", "L", "L", "C">>
      [] OTHER -> <<"Z", "e", "d">>

PoolIndustries(i) ==
    CASE i % 3 = 0 -> <<"B", "a", "n", "k", "s">>
      [] i % 3 = 1 -> <<"O", "i", "l", ",", " ", "G", "a", "s">>
      [] OTHER -> <<"A", "r", "t">>

PoolCities(i) ==
    CASE i % 3 = 0 -> <<"O", "s", "l", "o">>
      [] i % 3 = 1 -> <<"L", "i", "m", "a">>
      [] OTHER -> <<"R", "o", "m", "e">>

PoolStates(i) ==
    CASE i % 3 = 0 -> <<"O", "h", "i", "o">>
      [] i % 3 = 1 -> <<"U", "t", "a", "h">>
      [] OTHER -> <<"I", "o", "w", "a">>

PoolCountries(i) ==
    CASE i % 3 = 0 -> <<"P", "e", "r", "u">>
      [] i % 3 = 1 -> <<"C", "u", "b", "a">>
      [] OTHER -> <<"M", "a", "l", "i">>

\* --------------------------------------------------------------------- rng
\* ChaCha8Rng as a deterministic word source: the word at position pos of
\* stream `stream` of the generator keyed by `key`.
Mix(key, stream, pos) ==
    ((key + 1) * 7919 + (stream + 1) * 10007 + (pos + 1) * 12553
        + (key + 1) * (stream + 3) * (pos + 5) * 31) % 1000003

SeedFromU64(seed) == [key |-> seed, stream |-> 0, pos |-> 0]
\* set_stream changes the stream and keeps the word position.
SetStream(rng, offset) == [rng EXCEPT !.stream = offset]
Word(rng) == Mix(rng.key, rng.stream, rng.pos)
Advance(rng) == [rng EXCEPT !.pos = @ + 1]

\* rng.gen_range(lo..hi) on integers.
GenRange(rng, lo, hi) == lo + (Word(rng) % (hi - lo))
\* rng.gen_range(100000.0..100000000.0), to one fractional digit.
GenRevenue(rng) ==
    LET t == 1000000 + ((Word(rng) * 997) % 999000000)
    IN [units |-> t \div 10, tenths |-> t % 10]

\* --------------------------------------------------------- field key names
KeyId == <<"i", "d">>
KeyName == <<"n", "a", "m", "e">>
KeyIndustry == <<"i", "n", "d", "u", "s", "t", "r", "y">>
KeyRevenue == <<"r", "e", "v", "e", "n", "u", "e">>
KeyEmployees == <<"e", "m", "p", "l", "o", "y", "e", "e", "s">>
KeyCity == <<"c", "i", "t", "y">>
KeyState == <<"s", "t", "a", "t", "e">>
KeyCountry == <<"c", "o", "u", "n", "t", "r", "y">>

\* b"\"key\": " and b"\"key\": \""
NumPrefix(key) == <<Q>> \o key \o <<Q, ":", SP>>
StrPrefix(key) == <<Q>> \o key \o <<Q, ":", SP, Q>>

\* ============================================ src/processing.rs (streaming)
\* [u8; 32] holding a literal followed by zero bytes.
Pad32(lit) == lit \o [k \in 1..(BYTE_COUNT - Len(lit)) |-> NUL]

\* processing.rs:397-459, JsonPatterns::new.  prefix_len is 32 for every
\* unquoted pattern.
JsonPatterns ==
    [ separator_compact |-> Pad32(<<",">>),
      ending_compact |-> Pad32(<<"}">>),
      quoted_field_patterns |->
          [k \in 1..5 |->
              [ prefix |-> Pad32(StrPrefix(<<KeyName, KeyIndustry, KeyCity, KeyState, KeyCountry>>[k])),
                suffix |-> Pad32(<<Q>>) ]],
      unquoted_field_patterns |->
          [k \in 1..3 |->
              [ prefix |-> Pad32(NumPrefix(<<KeyId, KeyRevenue, KeyEmployees>>[k])),
                prefix_len |-> BYTE_COUNT ]] ]

\* processing.rs:188, PARALLEL_THRESHOLD, and :187, WIDE_BYTE_COUNT.
PARALLEL_THRESHOLD == 1024
WIDE_BYTE_COUNT == 64
CACHE_LINE_SIZE == 64

NeedsEscape(byte) == byte = Q \/ byte = "\\" \/ byte = NL

RECURSIVE EscapeEach(_)
\* processing.rs:276-281: a backslash before each quote, backslash, newline.
EscapeEach(bytes) ==
    IF bytes = <<>> THEN <<>>
    ELSE (IF NeedsEscape(Head(bytes)) THEN <<"\\", Head(bytes)>> ELSE <<Head(bytes)>>)
         \o EscapeEach(Tail(bytes))

\* processing.rs:275,291: escape_mask.any()
AnyEscape(bytes) == \E k \in 1..Len(bytes) : NeedsEscape(bytes[k])

\* processing.rs:268-305: one chunk of at most WIDE_BYTE_COUNT bytes on the
\* long-string path.
WideChunk(chunk) ==
    IF Len(chunk) = WIDE_BYTE_COUNT
    THEN IF AnyEscape(chunk) THEN EscapeEach(chunk) ELSE chunk
    ELSE IF Len(chunk) >= BYTE_COUNT
    THEN (IF AnyEscape(SubSeq(chunk, 1, BYTE_COUNT))
          THEN EscapeEach(SubSeq(chunk, 1, BYTE_COUNT))
          ELSE SubSeq(chunk, 1, BYTE_COUNT))
         \o SubSeq(chunk, BYTE_COUNT + 1, Len(chunk))
    ELSE chunk

RECURSIVE WideChunks(_)
\* bytes.chunks(WIDE_BYTE_COUNT), each through WideChunk.
WideChunks(bytes) ==
    IF bytes = <<>> THEN <<>>
    ELSE WideChunk(SubSeq(bytes, 1, Min(WIDE_BYTE_COUNT, Len(bytes))))
         \o WideChunks(SubSeq(bytes, Min(WIDE_BYTE_COUNT, Len(bytes)) + 1, Len(bytes)))

\* processing.rs:333-342: bytes.chunks(BYTE_COUNT), each chunk copied as is.
CopyChunks(bytes) == bytes

\* processing.rs:204-243: the numeric fields.  numeric_values holds revenue
\* and employees; pattern i is the i-th of id, revenue, employees.
NumericFields(location) ==
    LET numeric_values == <<DtoaFormat(location.revenue), ItoA(location.employees)>>
        pat(i) == JsonPatterns.unquoted_field_patterns[i]
        field(i) ==
            (IF i > 1 THEN JsonPatterns.separator_compact ELSE <<>>)
            \o SubSeq(pat(i).prefix, 1, pat(i).prefix_len)
            \o numeric_values[i]
    IN  field(1) \o field(2)

\* processing.rs:245-251, string_values.
StringValues(location) ==
    <<location.name, location.industry, location.city, location.state, location.country>>

\* A field's output with its first `padding` bytes left out.
OutputFromPadding(len, output) ==
    IF len % CACHE_LINE_SIZE = 0
    THEN JsonPatterns.separator_compact \o output
    ELSE JsonPatterns.separator_compact
         \o SubSeq(output, CACHE_LINE_SIZE - (len % CACHE_LINE_SIZE) + 1, Len(output))

\* processing.rs:308-317: what a field's output appends to a buffer of
\* length len: the separator and the output, whole on a cache-line boundary
\* and otherwise its first `padding` bytes followed by the rest.  An output
\* holds a prefix and a suffix of 32 bytes, more than a padding.
AppendOutput(len, output) ==
    IF len % CACHE_LINE_SIZE = 0
    THEN JsonPatterns.separator_compact \o output
    ELSE LET padding == CACHE_LINE_SIZE - (len % CACHE_LINE_SIZE)
         IN  JsonPatterns.separator_compact
             \o SubSeq(output, 1, padding) \o SubSeq(output, padding + 1, Len(output))

\* processing.rs:255-324: the string fields on the long-string path, each
\* value through the escaping chunks, appended to a buffer of length len.
StringFieldsLong(location, len) ==
    LET pat(i) == JsonPatterns.quoted_field_patterns[i]
        output(i) == pat(i).prefix \o WideChunks(StringValues(location)[i]) \o pat(i).suffix
        a1 == AppendOutput(len, output(1))
        a2 == AppendOutput(len + Len(a1), output(2))
        a3 == AppendOutput(len + Len(a1) + Len(a2), output(3))
        a4 == AppendOutput(len + Len(a1) + Len(a2) + Len(a3), output(4))
        a5 == AppendOutput(len + Len(a1) + Len(a2) + Len(a3) + Len(a4), output(5))
    IN  a1 \o a2 \o a3 \o a4 \o a5

\* processing.rs:325-345: the string fields on the short-string path, each
\* value copied as it is.
StringFieldsShort(location) ==
    LET pat(i) == JsonPatterns.quoted_field_patterns[i]
        short(i) == JsonPatterns.separator_compact
                    \o pat(i).prefix \o CopyChunks(StringValues(location)[i]) \o pat(i).suffix
    IN  short(1) \o short(2) \o short(3) \o short(4) \o short(5)

\* processing.rs:253-254: the path is chosen by the values' total length.
TotalStringLen(location) ==
    Len(location.name) + Len(location.industry) + Len(location.city)
    + Len(location.state) + Len(location.country)

\* processing.rs:245-345: the string fields, appended to a buffer of length
\* len.
StringFields(location, len) ==
    IF TotalStringLen(location) > PARALLEL_THRESHOLD
    THEN StringFieldsLong(location, len)
    ELSE StringFieldsShort(location)

\* processing.rs:181-348, write_location_json_simd: the bytes appended to a
\* buffer that holds len bytes.
WriteLocationJsonSimdOn(len, location) ==
    <<"{">> \o NumericFields(location)
    \o StringFields(location, len + 1 + Len(NumericFields(location)))
    \o JsonPatterns.ending_compact

\* write_location_json_simd on an empty buffer.
WriteLocationJsonSimd(location) == WriteLocationJsonSimdOn(0, location)

\* processing.rs:350-387, write_location_csv_simd: the bytes appended.
WriteLocationCsvSimd(location) ==
    <<",">>
    \o location.name \o <<",">>
    \o location.industry \o <<",">>
    \o F32ToString(location.revenue) \o <<",">>
    \o ItoA(location.employees) \o <<",">>
    \o location.city \o <<",">>
    \o location.state \o <<",">>
    \o location.country
    \o <<NL>>

\* processing.rs:67-95: the record at `offset`, drawn from stream `offset`
\* of a clone of the generator's rng.
LocationAt(rng, offset) ==
    LET local_rng == SetStream(rng, offset)
        r1 == Advance(local_rng)
        r2 == Advance(r1)
        r3 == Advance(r2)
        base_random == GenRange(local_rng, 0, 100)
    IN  [ name |-> PoolNames(base_random),
          industry |-> PoolIndustries(base_random),
          revenue |-> GenRevenue(r1),
          employees |-> GenRange(r2, 10, 10000),
          city |-> PoolCities(base_random),
          state |-> PoolStates(base_random),
          country |-> PoolCountries(GenRange(r3, 0, 5)) ]

\* processing.rs:40-56, StreamGenerator::new.
NewStreamGenerator(rng, p, fmt, chunk_size) ==
    [ rng |-> rng, pretty |-> p, format |-> fmt,
      bytes_generated |-> 0, chunk_size |-> chunk_size ]

\* A generator that would never find its budget met.
BudgetNeverMet(g) == FALSE

\* processing.rs:60 and :129, the budget test.
BudgetMet(g) == g.bytes_generated >= g.chunk_size

\* processing.rs:64-65, the number of records a chunk draws.
MaxRecords(g) ==
    LET chunk_target == Min(OPTIMAL_CHUNK_SIZE, g.chunk_size - g.bytes_generated)
    IN  Min(chunk_target \div 100, MAX_RECORDS_PER_CHUNK)

\* processing.rs:102-110: what one record appends to the buffer.
RecordSegs(g, location) ==
    IF g.format = "json"
    THEN <<Seg("comma", <<",">>), Seg("record", WriteLocationJsonSimd(location))>>
    ELSE <<Seg("record", WriteLocationCsvSimd(location))>>

\* A generator that would not count the bytes of a record.
BytesNotCounted(segs) == 0

\* processing.rs:112: bytes_written = buffer.len() - start_len, the bytes the
\* record added to the buffer.
BytesWritten(segs) == BufLen(segs)

\* A generator that would make a record's four draws on its own rng.
RngDrawnInPlace(rng) == Advance(Advance(Advance(Advance(rng))))

\* processing.rs:70: a record's draws are made on a clone of self.rng, which
\* stays as it was.
RngAfterDraws(rng) == rng

RECURSIVE ChunkLoop(_, _, _, _)
\* processing.rs:99-118: the loop over the chunk's locations from `offset` up
\* to `max_records`, with `broke` telling that the loop left at its break.
\* The range is halved, the second half run only when the first did not
\* break; a record's bytes are bound through a singleton set, so that they
\* are computed once for the length, the budget test and the buffer.
ChunkLoop(g, offset, max_records, buffer) ==
    IF offset >= max_records THEN [gen |-> g, buffer |-> buffer, broke |-> FALSE]
    ELSE IF offset + 1 = max_records
    THEN LET Step(segs, g2) ==
                 [gen |-> g2, buffer |-> buffer \o segs, broke |-> BudgetMet(g2)]
         IN  CHOOSE result \in
                 { Step(segs, [g EXCEPT !.bytes_generated = @ + BytesWritten(segs),
                                        !.rng = RngAfterDraws(@)]) :
                       segs \in { RecordSegs(g, location) :
                                      location \in {LocationAt(g.rng, offset)} } } : TRUE
    ELSE LET mid == (offset + max_records) \div 2
         IN  CHOOSE result \in
                 { IF left.broke THEN left
                   ELSE ChunkLoop(left.gen, mid, max_records, left.buffer) :
                       left \in {ChunkLoop(g, offset, mid, buffer)} } : TRUE

\* A generator that would number a chunk's offsets on from the records it
\* has already budgeted for.
OffsetResumed(g) == g.bytes_generated \div 100

\* processing.rs:67: (0..max_records), a chunk's offsets start at 0.
FirstOffset(g) == 0

\* processing.rs:58-125, generate_chunk: the generator afterwards and the
\* chunk returned (<<>> for None).
GenerateChunk(g) ==
    IF BudgetMet(g) THEN [gen |-> g, chunk |-> <<>>]
    ELSE LET r == ChunkLoop(g, FirstOffset(g), FirstOffset(g) + MaxRecords(g), <<>>)
         IN  [gen |-> r.gen, chunk |-> r.buffer]

\* processing.rs:127-164, generate_kickoff_chunk: one record drawn from the
\* generator's own rng, without a leading comma.
GenerateKickoffChunk(g) ==
    IF BudgetMet(g) THEN [gen |-> g, chunk |-> <<>>]
    ELSE LET r1 == Advance(g.rng)
             r2 == Advance(r1)
             r3 == Advance(r2)
             base_random == GenRange(g.rng, 0, 100)
             location == [ name |-> PoolNames(base_random),
                           industry |-> PoolIndustries(base_random),
                           revenue |-> GenRevenue(r1),
                           employees |-> GenRange(r2, 10, 10000),
                           city |-> PoolCities(base_random),
                           state |-> PoolStates(base_random),
                           country |-> PoolCountries(GenRange(r3, 0, 5)) ]
         IN  [ gen |-> [g EXCEPT !.rng = Advance(r3)],
               chunk |-> <<Seg("record",
                               IF g.format = "json"
                               THEN WriteLocationJsonSimd(location)
                               ELSE WriteLocationCsvSimd(location))>> ]

\* =================================================== src/main.rs (batch)
VARIABLES
    target_size,      \* usize: the parsed size parameter
    num_threads,      \* num_cpus::get()
    pretty,           \* the pretty parameter
    seed,             \* the request's seed
    total_generated,  \* Arc<Mutex<usize>>
    wpc,              \* each par_iter task's position
    start_id,         \* each task's start_id
    count,            \* each task's record count
    woutput,          \* each task's output buffer (ChunkResult.data)
    wrng,             \* each task's chunk_rng
    output,           \* generate_data's combined body
    hpc               \* the handler's position

\* The streaming pipeline around StreamGenerator.
VARIABLES
    format,           \* the format parameter: "json" or "csv"
    gens,             \* each shard's StreamGenerator
    spc,              \* each shard worker's position
    pending,          \* the chunk a shard is sending
    nsent,            \* how many chunks each shard has sent
    queue,            \* the bounded chunk queue
    closed,           \* whether the queue is closed
    cpc,              \* the consumer's position
    body,             \* the bytes handed to the transport
    delivered         \* the chunks the consumer received, in order

\* One call of a function of the program on an input of its own.
VARIABLES
    fn,               \* the function called, "none" before the call
    arg,              \* the call's input
    ret               \* what the call returned or appended

\* The shared ProgressInfo and the workers that call it.
VARIABLES
    progress,         \* the ProgressInfo: which one, its counters and last_printed
    pmutex,           \* the worker whose lock() succeeded last, -1 when unlocked
    now,              \* Instant::now(), in milliseconds
    ppc,              \* each worker's position in its calls
    plocal,           \* each worker's locals: the argument, the values read, its calls so far
    reports,          \* the reports printed: who printed and for which instant
    psum              \* the sum of the arguments passed to update and to update_streamed

\* The pool of random numbers the tasks of main3.rs share.
VARIABLES
    rng_pool          \* Mutex<RandomPool>: the task holding the lock, the pool's index

batchVars == <<total_generated, wpc, start_id, count, woutput, wrng, output, hpc>>
streamVars == <<gens, spc, pending, nsent, queue, closed, cpc, body, delivered>>
reqVars == <<target_size, num_threads, pretty, seed, format>>
callVars == <<fn, arg, ret>>
progVars == <<progress, pmutex, now, ppc, plocal, reports, psum>>
poolVars == <<rng_pool>>

\* The call variables while a request is served.
NoCall == fn = "none" /\ arg = [kind |-> "none"] /\ ret = <<>>

\* The pool variable where the program has no RandomPool.
NoPool == rng_pool = [kind |-> "none"]

\* The progress variables where no ProgressInfo is followed.
NoProgress ==
    /\ progress = [kind |-> "none"]
    /\ pmutex = -1
    /\ now = 0
    /\ ppc = <<>>
    /\ plocal = <<>>
    /\ reports = <<>>
    /\ psum = [update |-> 0, streamed |-> 0]

Workers == 0..(MaxThreads - 1)

\* main.rs:67 and :251, the array framing.
OpenBracket(p) == IF p THEN <<"[", NL, SP, SP>> ELSE <<"[">>
CloseBracket(p) == IF p THEN <<NL, "]", NL>> ELSE <<"]">>
\* main.rs:86, the comma between records.
RecordComma(p) == IF p THEN <<",", NL, SP, SP>> ELSE <<",">>
\* main.rs:72-83, the separator between fields and the end of an object.
FieldSeparator(p) == IF p THEN <<",", NL, SP, SP, SP, SP>> ELSE <<",">>
LineEnd(p) == IF p THEN <<NL, SP, SP, "}">> ELSE <<"}">>

\* main.rs:89-99: one record drawn from the task's rng, four draws in order.
NewLocation(rng, id) ==
    LET r1 == Advance(rng)
        r2 == Advance(r1)
        r3 == Advance(r2)
        random_number == GenRange(rng, 0, 100)
    IN  [ loc |-> [ id |-> id,
                    name |-> PoolNames(random_number),
                    industry |-> PoolIndustries(random_number),
                    revenue |-> GenRevenue(r1),
                    employees |-> GenRange(r2, 10, 10000),
                    city |-> PoolCities(random_number),
                    state |-> PoolStates(random_number),
                    country |-> PoolCountries(GenRange(r3, 0, 5)) ],
          rng |-> Advance(r3) ]

\* main.rs:101-142: the bytes of one object.
WriteLocation(loc, p) ==
    <<"{">> \o (IF p THEN <<NL, SP, SP, SP, SP>> ELSE <<>>)
    \o NumPrefix(KeyId) \o ItoA(loc.id)
    \o FieldSeparator(p) \o StrPrefix(KeyName) \o loc.name \o <<Q>>
    \o FieldSeparator(p) \o StrPrefix(KeyIndustry) \o loc.industry \o <<Q>>
    \o FieldSeparator(p) \o NumPrefix(KeyRevenue) \o F32ToString(loc.revenue)
    \o FieldSeparator(p) \o NumPrefix(KeyEmployees) \o ItoA(loc.employees)
    \o FieldSeparator(p) \o StrPrefix(KeyCity) \o loc.city \o <<Q>>
    \o FieldSeparator(p) \o StrPrefix(KeyState) \o loc.state \o <<Q>>
    \o FieldSeparator(p) \o StrPrefix(KeyCountry) \o loc.country \o <<Q>>
    \o LineEnd(p)

\* main.rs:206, each task's target_chunk_size.
ChunkSize == target_size \div num_threads

\* main.rs:229-237: the target_chunk_size task i is called with.
TaskBudget(i) == ChunkSize

\* A loop that would also run when the buffer has just reached its target.
LoopConditionInclusive(len, target_chunk_size) == len <= target_chunk_size

\* main.rs:84, the loop condition of generate_chunk.
LoopCondition(len, target_chunk_size) == len < target_chunk_size

\* main.rs:85, whether a comma goes before the record.
NeedsComma(cnt, is_first) == cnt > 0 \/ ~is_first

\* A task that would give every record the id it started from.
CurrentIdFrozen(start, cnt) == start

\* main.rs:71 and :159: current_id starts at start_id and goes up by one
\* with every record.
CurrentId(start, cnt) == start + cnt

\* main.rs:71,91,159: the ids task i gave its records, in order.
WorkerIds(i) == [k \in 1..count[i] |-> start_id[i] + (k - 1)]

\* The requests of the batch handler: every small one, and one large
\* single-task request.
BatchRequests ==
    [target : Targets, threads : Threads, pretty : BOOLEAN, seed : Seeds]
    \cup {[target |-> LargeTarget, threads |-> 1, pretty |-> FALSE, seed |-> 0]}

InitBatch ==
    /\ \E r \in BatchRequests :
          /\ target_size = r.target
          /\ num_threads = r.threads
          /\ pretty = r.pretty
          /\ seed = r.seed
    /\ total_generated = 0
    /\ wpc = [i \in Workers |-> "spawn"]
    /\ start_id = [i \in Workers |-> 0]
    /\ count = [i \in Workers |-> 0]
    /\ woutput = [i \in Workers |-> <<>>]
    /\ wrng = [i \in Workers |-> SeedFromU64(0)]
    /\ output = <<>>
    /\ hpc = "generate"
    /\ format = "json"
    /\ gens = [i \in Workers |-> NewStreamGenerator(SeedFromU64(0), FALSE, "json", 0)]
    /\ spc = [i \in Workers |-> "idle"]
    /\ pending = [i \in Workers |-> <<>>]
    /\ nsent = [i \in Workers |-> 0]
    /\ queue = <<>>
    /\ closed = FALSE
    /\ cpc = "idle"
    /\ body = <<>>
    /\ delivered = <<>>
    /\ NoCall
    /\ NoProgress
    /\ NoPool

\* main.rs:226-228 and :65-71: a task reads start_id under the lock and
\* generate_chunk opens its buffer.
WorkerStart(i) ==
    /\ hpc = "generate"
    /\ i < num_threads
    /\ wpc[i] = "spawn"
    /\ wrng' = [wrng EXCEPT ![i] = SeedFromU64(seed + i)]
    /\ start_id' = [start_id EXCEPT ![i] = total_generated]
    /\ woutput' = [woutput EXCEPT ![i] =
                      IF i = 0 THEN <<Seg("open", OpenBracket(pretty))>> ELSE <<>>]
    /\ count' = [count EXCEPT ![i] = 0]
    /\ wpc' = [wpc EXCEPT ![i] = "loop"]
    /\ UNCHANGED <<total_generated, output, hpc>>
    /\ UNCHANGED <<reqVars, streamVars, callVars, progVars, poolVars>>

\* main.rs:84-160: one iteration of generate_chunk's loop.
WorkerRecord(i) ==
    /\ wpc[i] = "loop"
    /\ LoopCondition(BufLen(woutput[i]), ChunkSize)
    /\ LET new == NewLocation(wrng[i], CurrentId(start_id[i], count[i]))
           comma == IF NeedsComma(count[i], i = 0)
                    THEN <<Seg("comma", RecordComma(pretty))>> ELSE <<>>
       IN  /\ woutput' = [woutput EXCEPT ![i] =
                             @ \o comma \o <<Seg("record", WriteLocation(new.loc, pretty))>>]
           /\ wrng' = [wrng EXCEPT ![i] = new.rng]
    /\ count' = [count EXCEPT ![i] = @ + 1]
    /\ UNCHANGED <<total_generated, wpc, start_id, output, hpc>>
    /\ UNCHANGED <<reqVars, streamVars, callVars, progVars, poolVars>>

\* main.rs:162-165 and :239: generate_chunk returns and the task adds its
\* count to total_generated under the lock.
WorkerReturn(i) ==
    /\ wpc[i] = "loop"
    /\ ~LoopCondition(BufLen(woutput[i]), ChunkSize)
    /\ total_generated' = total_generated + count[i]
    /\ wpc' = [wpc EXCEPT ![i] = "done"]
    /\ UNCHANGED <<start_id, count, woutput, wrng, output, hpc>>
    /\ UNCHANGED <<reqVars, streamVars, callVars, progVars, poolVars>>

\* A handler that would wait for the first task only.
FirstTaskCollected == wpc[0] = "done"

\* main.rs:243, collect() returns once every task has.
AllCollected == \A i \in Workers : i < num_threads => wpc[i] = "done"

\* main.rs:243-259: the chunks are joined in task order, the array closed
\* and the body handed to the response.
Combine ==
    /\ hpc = "generate"
    /\ AllCollected
    /\ output' = Concat([k \in 1..num_threads |-> woutput[k - 1]])
                    \o <<Seg("close", CloseBracket(pretty))>>
    /\ hpc' = "done"
    /\ UNCHANGED <<total_generated, wpc, start_id, count, woutput, wrng>>
    /\ UNCHANGED <<reqVars, streamVars, callVars, progVars, poolVars>>

NextBatch ==
    \/ \E i \in Workers : WorkerStart(i)
    \/ \E i \in Workers : WorkerRecord(i)
    \/ \E i \in Workers : WorkerReturn(i)
    \/ Combine

vars == <<reqVars, batchVars, streamVars, callVars, progVars, poolVars>>

SpecBatch == InitBatch /\ [][NextBatch]_vars

\* Every par_iter task is eventually run by the pool, and the handler goes
\* on once collect() can return.
FairSpecBatch == SpecBatch /\ WF_vars(NextBatch)

\* ==================================================== streaming pipeline
\* A shard's byte budget: the integer share, the remainder to the last.
ShardBudget(s, target, shards) ==
    (target \div shards) + (IF s = shards - 1 THEN target % shards ELSE 0)

\* The queue holds at most a number of chunks proportional to the workers.
QueueCapacity == QueueFactor * num_threads

CsvHeaderLine ==
    KeyId \o <<",">> \o KeyName \o <<",">> \o KeyIndustry \o <<",">> \o KeyRevenue
    \o <<",">> \o KeyEmployees \o <<",">> \o KeyCity \o <<",">> \o KeyState
    \o <<",">> \o KeyCountry \o <<NL>>

\* The framing the consumer writes before the first and after the last chunk.
Header(fmt, p) ==
    IF fmt = "csv" THEN <<Seg("header", CsvHeaderLine)>>
    ELSE <<Seg("open", IF p THEN <<"[", NL>> ELSE <<"[">>)>>
Footer(fmt, p) ==
    IF fmt = "csv" THEN <<>>
    ELSE <<Seg("close", IF p THEN <<"]", NL>> ELSE <<"]">>)>>

Terminated(s) == spc[s] \in {"finished", "cancelled"}
AllShardsFinished == \A s \in Workers : s < num_threads => spc[s] = "finished"

InitStream ==
    /\ target_size \in Targets
    /\ num_threads \in Threads
    /\ pretty \in BOOLEAN
    /\ seed \in Seeds
    /\ format \in {"json", "csv"}
    /\ gens = [s \in Workers |->
                  IF s < num_threads
                  THEN NewStreamGenerator(SeedFromU64(seed + s), pretty, format,
                                          ShardBudget(s, target_size, num_threads))
                  ELSE NewStreamGenerator(SeedFromU64(0), FALSE, "json", 0)]
    /\ spc = [s \in Workers |-> IF s < num_threads THEN "generate" ELSE "idle"]
    /\ pending = [s \in Workers |-> <<>>]
    /\ nsent = [s \in Workers |-> 0]
    /\ queue = <<>>
    /\ closed = FALSE
    /\ cpc = "header"
    /\ body = <<>>
    /\ delivered = <<>>
    /\ total_generated = 0
    /\ wpc = [i \in Workers |-> "spawn"]
    /\ start_id = [i \in Workers |-> 0]
    /\ count = [i \in Workers |-> 0]
    /\ woutput = [i \in Workers |-> <<>>]
    /\ wrng = [i \in Workers |-> SeedFromU64(0)]
    /\ output = <<>>
    /\ hpc = "idle"
    /\ NoCall
    /\ NoProgress
    /\ NoPool

\* The shard worker calls generate_chunk: a chunk to send, or completion.
ShardGenerate(s) ==
    /\ spc[s] = "generate"
    /\ \E r \in {GenerateChunk(gens[s])} :
           /\ gens' = [gens EXCEPT ![s] = r.gen]
           /\ pending' = [pending EXCEPT ![s] = r.chunk]
           /\ spc' = [spc EXCEPT ![s] = IF r.chunk = <<>> THEN "finished" ELSE "send"]
    /\ UNCHANGED <<nsent, queue, closed, cpc, body, delivered>>
    /\ UNCHANGED <<reqVars, batchVars, callVars, progVars, poolVars>>

\* A queue that would accept a send whatever it holds.
SendIgnoringCapacity(q, isClosed) == ~isClosed

\* A send completes only while the queue is open and below its capacity.
SendCompletes(q, isClosed) == ~isClosed /\ Len(q) < QueueCapacity

ShardSend(s) ==
    /\ spc[s] = "send"
    /\ SendCompletes(queue, closed)
    /\ queue' = Append(queue, [shard |-> s, seq |-> nsent[s] + 1, data |-> pending[s]])
    /\ nsent' = [nsent EXCEPT ![s] = @ + 1]
    /\ pending' = [pending EXCEPT ![s] = <<>>]
    /\ spc' = [spc EXCEPT ![s] = "generate"]
    /\ UNCHANGED <<gens, closed, cpc, body, delivered>>
    /\ UNCHANGED <<reqVars, batchVars, callVars, progVars, poolVars>>

\* A shard that would go on generating after a failed send.
ContinueAfterFailedSend == "generate"

\* What a shard does when its send fails on a closed queue.
AfterFailedSend == "cancelled"

\* A send on a closed queue fails and the shard terminates at once.
ShardSendFails(s) ==
    /\ spc[s] = "send"
    /\ closed
    /\ pending' = [pending EXCEPT ![s] = <<>>]
    /\ spc' = [spc EXCEPT ![s] = AfterFailedSend]
    /\ UNCHANGED <<gens, nsent, queue, closed, cpc, body, delivered>>
    /\ UNCHANGED <<reqVars, batchVars, callVars, progVars, poolVars>>

\* The consumer writes the format header before the first chunk.
ConsumerHeader ==
    /\ cpc = "header"
    /\ body' = Header(format, pretty)
    /\ cpc' = "receive"
    /\ UNCHANGED <<gens, spc, pending, nsent, queue, closed, delivered>>
    /\ UNCHANGED <<reqVars, batchVars, callVars, progVars, poolVars>>

\* The consumer receives the oldest chunk and writes it to the transport.
ConsumerReceive ==
    /\ cpc = "receive"
    /\ queue # <<>>
    /\ body' = body \o Head(queue).data
    /\ delivered' = Append(delivered, [shard |-> Head(queue).shard, seq |-> Head(queue).seq])
    /\ queue' = Tail(queue)
    /\ UNCHANGED <<gens, spc, pending, nsent, closed, cpc>>
    /\ UNCHANGED <<reqVars, batchVars, callVars, progVars, poolVars>>

\* Every shard has finished and the queue is drained: the footer, then done.
ConsumerFooter ==
    /\ cpc = "receive"
    /\ queue = <<>>
    /\ AllShardsFinished
    /\ body' = body \o Footer(format, pretty)
    /\ cpc' = "complete"
    /\ UNCHANGED <<gens, spc, pending, nsent, queue, closed, delivered>>
    /\ UNCHANGED <<reqVars, batchVars, callVars, progVars, poolVars>>

\* The sink reports a write failure (the client went away): the consumer
\* closes the queue, dropping what it holds, and stops.
SinkFails ==
    /\ cpc = "header" \/ (cpc = "receive" /\ queue # <<>>)
    /\ closed' = TRUE
    /\ queue' = <<>>
    /\ cpc' = "aborted"
    /\ UNCHANGED <<gens, spc, pending, nsent, body, delivered>>
    /\ UNCHANGED <<reqVars, batchVars, callVars, progVars, poolVars>>

NextStream ==
    \/ \E s \in Workers : ShardGenerate(s)
    \/ \E s \in Workers : ShardSend(s)
    \/ \E s \in Workers : ShardSendFails(s)
    \/ ConsumerHeader
    \/ ConsumerReceive
    \/ ConsumerFooter
    \/ SinkFails

SpecStream == InitStream /\ [][NextStream]_vars

\* Shard threads and the consumer task keep running; a blocked send is
\* served once room appears (the queue wakes its senders in turn).
FairSpecStream ==
    /\ SpecStream
    /\ \A s \in Workers :
          WF_vars(ShardGenerate(s)) /\ SF_vars(ShardSend(s)) /\ WF_vars(ShardSendFails(s))
    /\ WF_vars(ConsumerHeader) /\ WF_vars(ConsumerReceive) /\ WF_vars(ConsumerFooter)

\* The request handler in either generation.
Init == InitBatch \/ InitStream
Next == NextBatch \/ NextStream
Spec == Init /\ [][Next]_vars

\* ======================================================= size parameter
\* A u64 (usize on a 64-bit target) as four 16-bit limbs, lowest first; the
\* numbers converted are below 2^31.
LimbBase == 65536
U64(n) == <<n % LimbBase, (n \div LimbBase) % LimbBase, 0, 0>>

\* x * m for m up to 1024: the low 64 bits and whether bits were lost.
MulSmall(x, m) ==
    LET t1 == x[1] * m
        t2 == x[2] * m + (t1 \div LimbBase)
        t3 == x[3] * m + (t2 \div LimbBase)
        t4 == x[4] * m + (t3 \div LimbBase)
    IN  [ limbs |-> <<t1 % LimbBase, t2 % LimbBase, t3 % LimbBase, t4 % LimbBase>>,
          wrapped |-> t4 \div LimbBase > 0 ]

RECURSIVE MulPow1024(_, _)
\* x * 1024^k in 64 bits.
MulPow1024(x, k) ==
    IF k = 0 THEN [limbs |-> x, wrapped |-> FALSE]
    ELSE LET r == MulSmall(x, 1024)
             rest == MulPow1024(r.limbs, k - 1)
         IN  [limbs |-> rest.limbs, wrapped |-> r.wrapped \/ rest.wrapped]

\* str::to_lowercase on the letters the inputs use.
LowerOf(c) ==
    CASE c = "B" -> "b" [] c = "K" -> "k" [] c = "M" -> "m"
      [] c = "G" -> "g" [] c = "T" -> "t" [] c = "X" -> "x"
      [] OTHER -> c
ToLowercase(text) == [k \in 1..Len(text) |-> LowerOf(text[k])]

IsDigit(c) == \E d \in 1..10 : Digits[d] = c

\* size_str.find(|c| !c.is_digit(10)): the index of the first byte that is
\* no digit, 0 for None.
FindNonDigit(text) ==
    IF \E i \in 1..Len(text) : ~IsDigit(text[i])
    THEN CHOOSE i \in 1..Len(text) :
             ~IsDigit(text[i]) /\ \A j \in 1..(i - 1) : IsDigit(text[j])
    ELSE 0

RECURSIVE DecimalValue(_)
\* str::parse on a non-empty string of at most nine digits.
DecimalValue(ds) ==
    IF ds = <<>> THEN 0
    ELSE DecimalValue(SubSeq(ds, 1, Len(ds) - 1)) * 10
         + (CHOOSE d \in 0..9 : Digits[d + 1] = ds[Len(ds)])

\* u64::MAX in decimal.
U64MaxText ==
    <<"1", "8", "4", "4", "6", "7", "4", "4", "0", "7",
      "3", "7", "0", "9", "5", "5", "1", "6", "1", "5">>

\* The digit a byte stands for.
DigitOf(c) == CHOOSE d \in 0..9 : Digits[d + 1] = c

\* The digits without their leading zeros.
StripZeros(ds) ==
    IF \E i \in 1..Len(ds) : ds[i] # "0"
    THEN SubSeq(ds, CHOOSE i \in 1..Len(ds) :
                        ds[i] # "0" /\ \A j \in 1..(i - 1) : ds[j] = "0", Len(ds))
    ELSE <<>>

\* util.rs:149-151 and main.rs:175-177, str::parse::<u64> on digits: whether
\* the number is one a u64 holds (usize is 64 bits wide).
FitsU64(ds) ==
    LET s == StripZeros(ds)
    IN  \/ Len(s) < Len(U64MaxText)
        \/ /\ Len(s) = Len(U64MaxText)
           /\ \/ s = U64MaxText
              \/ \E i \in 1..Len(s) :
                     /\ DigitOf(s[i]) < DigitOf(U64MaxText[i])
                     /\ \A j \in 1..(i - 1) : s[j] = U64MaxText[j]

Err(msg) == [ok |-> FALSE, error |-> msg]

\* A call that does not return: the thread panics.
Panic(msg) == [ok |-> FALSE, panic |-> msg]
Panicked(r) == "panic" \in DOMAIN r

\* util.rs:153-164, the multiplier of a unit as small * 1024^pow; pow is -1
\* for a unit that is not recognised.
UtilMultiplier(unit) ==
    CASE unit = <<"b">> -> [small |-> 8, pow |-> 0]
      [] unit = <<"k", "b">> -> [small |-> 1, pow |-> 1]
      [] unit = <<"m", "b">> -> [small |-> 1, pow |-> 2]
      [] unit = <<"g", "b">> -> [small |-> 1, pow |-> 3]
      [] unit = <<"t", "b">> -> [small |-> 1, pow |-> 4]
      [] OTHER -> [small |-> 0, pow |-> -1]

\* main.rs:179-185, the multiplier of a unit.
MainMultiplier(unit) ==
    CASE unit = <<"b">> -> [small |-> 1, pow |-> 0]
      [] unit = <<"k", "b">> -> [small |-> 1, pow |-> 1]
      [] unit = <<"m", "b">> -> [small |-> 1, pow |-> 2]
      [] unit = <<"g", "b">> -> [small |-> 1, pow |-> 3]
      [] OTHER -> [small |-> 0, pow |-> -1]

\* number * multiplier: the product when it fits; when it does not, the
\* wrapped product of a build without overflow checks or the panic of a
\* build with them.
Product(number, m) ==
    LET p == MulPow1024(MulSmall(U64(number), m.small).limbs, m.pow)
        wrapped == MulSmall(U64(number), m.small).wrapped \/ p.wrapped
    IN  IF wrapped
        THEN {[ok |-> TRUE, total_size |-> p.limbs], Panic("attempt to multiply with overflow")}
        ELSE {[ok |-> TRUE, total_size |-> p.limbs]}

\* util.rs:144-147 and main.rs:170-173: the lower-cased string split at its
\* first byte that is no digit; at is 0 when there is none.
SplitSize(size_str) ==
    LET lower == ToLowercase(size_str)
        i == FindNonDigit(lower)
    IN  [ at |-> i,
          number_str |-> IF i = 0 THEN <<>> ELSE SubSeq(lower, 1, i - 1),
          unit |-> IF i = 0 THEN <<>> ELSE SubSeq(lower, i, Len(lower)) ]

\* util.rs:142-171, parse_size: the results the call can have (of the
\* SizeInfo, its total_size).
UtilParseSize(size_str) ==
    LET parts == SplitSize(size_str)
    IN  IF parts.at = 0 THEN {Err("Invalid format")}
        ELSE IF parts.number_str = <<>> \/ ~FitsU64(parts.number_str)
        THEN {Err("Invalid number")}
        ELSE IF UtilMultiplier(parts.unit).pow < 0 THEN {Err("Invalid unit")}
        ELSE Product(DecimalValue(parts.number_str), UtilMultiplier(parts.unit))

\* main.rs:168-188, parse_size: the results the call can have.
MainParseSize(size_str) ==
    LET parts == SplitSize(size_str)
    IN  IF parts.at = 0 THEN {Err("Invalid format")}
        ELSE IF parts.number_str = <<>> \/ ~FitsU64(parts.number_str)
        THEN {Err("Invalid number")}
        ELSE IF MainMultiplier(parts.unit).pow < 0 THEN {Err("Invalid unit")}
        ELSE Product(DecimalValue(parts.number_str), MainMultiplier(parts.unit))

\* util.rs:173-180, get_size_info on Option<&String>.
GetSizeInfo(size) ==
    IF size.present
    THEN {IF r.ok \/ Panicked(r) THEN r ELSE Err("Failed to parse size") :
              r \in UtilParseSize(size.text)}
    ELSE {Err("Size parameter is missing")}

\* main.rs:196-200, the handler's target_size.
MainTargetSize(size) ==
    IF size.present
    THEN {IF r.ok \/ Panicked(r) THEN r ELSE [ok |-> TRUE, total_size |-> U64(BYTE_SIZE)] :
              r \in MainParseSize(size.text)}
    ELSE {[ok |-> TRUE, total_size |-> U64(BYTE_SIZE)]}

\* The size parameters a call is given: a number, or none, followed by a
\* unit in some spelling, by something else or by nothing.
SampleNumbers == {0, 1, 5, 12, 1024, 16777216}
TooLargeNumber == [k \in 1..Len(U64MaxText) |-> "9"]
SampleNumberTexts == {ItoA(n) : n \in SampleNumbers} \cup {<<>>, <<"0", "7">>, TooLargeNumber}
SampleUnitTexts ==
    { <<"b">>, <<"B">>, <<"k", "b">>, <<"K", "B">>, <<"K", "b">>, <<"m", "b">>, <<"M", "B">>,
      <<"g", "b">>, <<"G", "b">>, <<"t", "b">>, <<"T", "B">>,
      <<>>, <<"x">>, <<"k">>, <<"k", "b", "x">>, <<" ", "m", "b">> }
SampleSizes ==
    {[present |-> TRUE, text |-> n \o u] : n \in SampleNumberTexts, u \in SampleUnitTexts}
    \cup {[present |-> FALSE, text |-> <<>>]}

\* ========================================================= single calls
\* A value of LongLen bytes with a double quote at each of the positions qs.
LongValue(qs) == [k \in 1..LongLen |-> IF k \in qs THEN Q ELSE "a"]

\* The string values a call is given: plain ones, ones holding a byte to
\* escape, and ones long enough for the long-string path, with a quote in a
\* full 64-byte chunk or in the last, shorter one.
SampleNames ==
    { <<"A", "c", "m", "e">>,
      <<"a", Q, "b">>,
      <<"a", "\\", "b">>,
      <<"a", NL, "b">>,
      LongValue({}),
      LongValue({10}),
      LongValue({LongLen - 2}) }

SampleIndustries == { <<"O", "i", "l", ",", " ", "G", "a", "s">>, <<"R", "e", "t", "a", "i", "l">> }

SampleLocations ==
    [ id : {0, 7},
      name : SampleNames,
      industry : SampleIndustries,
      revenue : {[units |-> 100000, tenths |-> 0], [units |-> 1234567, tenths |-> 5]},
      employees : {10, 9999},
      city : {<<"R", "i", "o">>},
      state : {<<"G", "o", "a">>},
      country : {<<"P", "e", "r", "u">>} ]

\* Generators as StreamGenerator::new leaves them, with no budget, a budget
\* of a record or two and a budget of more than two micro-chunks.
SampleGenerators ==
    { NewStreamGenerator(SeedFromU64(sd), p, f, budget) :
          sd \in Seeds, p \in BOOLEAN, f \in {"json", "csv"}, budget \in {0, 150, LargeTarget} }

\* processing.rs:67-80, the numbers drawn for the record at `offset`: the
\* index into the name, industry, city and state tables, the employee count
\* and the index into the country table, with the end of the range the
\* country index is drawn from and the lengths of the tables.
RandomNumbers(rng, offset) ==
    LET local_rng == SetStream(rng, offset)
    IN  [ base_random |-> GenRange(local_rng, 0, 100),
          employees |-> GenRange(Advance(Advance(local_rng)), 10, 10000),
          country_idx |-> GenRange(Advance(Advance(Advance(local_rng))), 0, 5),
          country_end |-> 5,
          pool_len |-> POOL_SIZE,
          countries_len |-> COUNTRY_POOL_SIZE ]

\* main3.rs:237-246, the numbers drawn for one record: random_number from
\* the pooled u32, the employee count and the country index from the task's
\* rng, after the revenue.
Main3Numbers(rng, pooled) ==
    [ base_random |-> pooled % 100,
      employees |-> GenRange(Advance(rng), 10, 10000),
      country_idx |-> GenRange(Advance(Advance(rng)), 0, COUNTRY_POOL_SIZE),
      country_end |-> COUNTRY_POOL_SIZE,
      pool_len |-> POOL_SIZE,
      countries_len |-> COUNTRY_POOL_SIZE ]

\* Generator states and record offsets the draws are made from.
SampleRngs ==
    {[rng |-> [key |-> k, stream |-> 0, pos |-> q], offset |-> o] :
         k \in Seeds, q \in 0..3, o \in 0..7}

\* Lengths of the buffer an encoder appends to: empty, on a cache-line
\* boundary and off it.
SampleBufferLens == {0, 1, 37, 63, 64, 100, 128}

CallInputs ==
    {[kind |-> "location", location |-> l] : l \in SampleLocations}
    \cup {[kind |-> "rng", draw |-> d] : d \in SampleRngs}
    \cup {[kind |-> "generator", gen |-> g] : g \in SampleGenerators}
    \cup {[kind |-> "size", size |-> z] : z \in SampleSizes}

\* No request is being served: a function is called on an input of its own.
InitCalls ==
    /\ NoProgress
    /\ NoPool
    /\ fn = "none"
    /\ arg \in CallInputs
    /\ ret = <<>>
    /\ pretty \in BOOLEAN
    /\ target_size = 0
    /\ num_threads = 1
    /\ seed = 0
    /\ format = "json"
    /\ total_generated = 0
    /\ wpc = [i \in Workers |-> "spawn"]
    /\ start_id = [i \in Workers |-> 0]
    /\ count = [i \in Workers |-> 0]
    /\ woutput = [i \in Workers |-> <<>>]
    /\ wrng = [i \in Workers |-> SeedFromU64(0)]
    /\ output = <<>>
    /\ hpc = "idle"
    /\ gens = [i \in Workers |-> NewStreamGenerator(SeedFromU64(0), FALSE, "json", 0)]
    /\ spc = [i \in Workers |-> "idle"]
    /\ pending = [i \in Workers |-> <<>>]
    /\ nsent = [i \in Workers |-> 0]
    /\ queue = <<>>
    /\ closed = FALSE
    /\ cpc = "idle"
    /\ body = <<>>
    /\ delivered = <<>>

\* processing.rs:181-348 on an empty buffer.
CallWriteLocationJsonSimd ==
    /\ fn = "none"
    /\ arg.kind = "location"
    /\ fn' = "write_location_json_simd"
    /\ ret' = WriteLocationJsonSimd(arg.location)
    /\ UNCHANGED <<arg, reqVars, batchVars, streamVars, progVars, poolVars>>

\* processing.rs:350-387 on an empty buffer.
CallWriteLocationCsvSimd ==
    /\ fn = "none"
    /\ arg.kind = "location"
    /\ fn' = "write_location_csv_simd"
    /\ ret' = WriteLocationCsvSimd(arg.location)
    /\ UNCHANGED <<arg, reqVars, batchVars, streamVars, progVars, poolVars>>

\* main.rs:101-142, the object generate_chunk writes for one location.
CallWriteLocation ==
    /\ fn = "none"
    /\ arg.kind = "location"
    /\ fn' = "write_location"
    /\ ret' = WriteLocation(arg.location, pretty)
    /\ UNCHANGED <<arg, reqVars, batchVars, streamVars, progVars, poolVars>>

\* util.rs:142-171, parse_size on a size string.
CallUtilParseSize ==
    /\ fn = "none"
    /\ arg.kind = "size" /\ arg.size.present
    /\ fn' = "util::parse_size"
    /\ ret' \in UtilParseSize(arg.size.text)
    /\ UNCHANGED <<arg, reqVars, batchVars, streamVars, progVars, poolVars>>

\* main.rs:168-188, parse_size on a size string.
CallMainParseSize ==
    /\ fn = "none"
    /\ arg.kind = "size" /\ arg.size.present
    /\ fn' = "main::parse_size"
    /\ ret' \in MainParseSize(arg.size.text)
    /\ UNCHANGED <<arg, reqVars, batchVars, streamVars, progVars, poolVars>>

\* util.rs:173-180, get_size_info on the request's size parameter.
CallGetSizeInfo ==
    /\ fn = "none"
    /\ arg.kind = "size"
    /\ fn' = "get_size_info"
    /\ ret' \in GetSizeInfo(arg.size)
    /\ UNCHANGED <<arg, reqVars, batchVars, streamVars, progVars, poolVars>>

\* main.rs:196-200, generate_data computing target_size.
CallMainTargetSize ==
    /\ fn = "none"
    /\ arg.kind = "size"
    /\ fn' = "main::target_size"
    /\ ret' \in MainTargetSize(arg.size)
    /\ UNCHANGED <<arg, reqVars, batchVars, streamVars, progVars, poolVars>>

\* processing.rs:58-125, generate_chunk on a generator.
CallGenerateChunk ==
    /\ fn = "none"
    /\ arg.kind = "generator"
    /\ fn' = "generate_chunk"
    /\ ret' \in {GenerateChunk(arg.gen)}
    /\ UNCHANGED <<arg, reqVars, batchVars, streamVars, progVars, poolVars>>

\* processing.rs:67-80, the draws of generate_chunk for one offset.
CallRandomNumbers ==
    /\ fn = "none"
    /\ arg.kind = "rng"
    /\ fn' = "random_numbers"
    /\ ret' = RandomNumbers(arg.draw.rng, arg.draw.offset)
    /\ UNCHANGED <<arg, reqVars, batchVars, streamVars, progVars, poolVars>>

\* main3.rs:237-246, the draws of generate_chunk for one record, the pooled
\* number being the word the pool's rng gave at the record's index.
CallMain3Numbers ==
    /\ fn = "none"
    /\ arg.kind = "rng"
    /\ fn' = "main3::numbers"
    /\ ret' = Main3Numbers(arg.draw.rng, Word([key |-> 0, stream |-> 0, pos |-> arg.draw.offset]))
    /\ UNCHANGED <<arg, reqVars, batchVars, streamVars, progVars, poolVars>>

\* processing.rs:181-348 on a buffer that already holds len bytes.
CallWriteLocationJsonSimdOn ==
    /\ fn = "none"
    /\ arg.kind = "location"
    /\ \E len \in SampleBufferLens :
           ret' = [len |-> len, bytes |-> WriteLocationJsonSimdOn(len, arg.location)]
    /\ fn' = "write_location_json_simd_on"
    /\ UNCHANGED <<arg, reqVars, batchVars, streamVars, progVars, poolVars>>

NextCalls ==
    \/ CallWriteLocationJsonSimd
    \/ CallWriteLocationCsvSimd
    \/ CallWriteLocation
    \/ CallUtilParseSize
    \/ CallMainParseSize
    \/ CallGetSizeInfo
    \/ CallMainTargetSize
    \/ CallGenerateChunk
    \/ CallWriteLocationJsonSimdOn
    \/ CallRandomNumbers
    \/ CallMain3Numbers

SpecCalls == InitCalls /\ [][NextCalls]_vars

\* The variables of the handlers and of the pipeline where no request is
\* served.
NoRequest ==
    /\ total_generated = 0
    /\ wpc = [i \in Workers |-> "spawn"]
    /\ start_id = [i \in Workers |-> 0]
    /\ count = [i \in Workers |-> 0]
    /\ woutput = [i \in Workers |-> <<>>]
    /\ wrng = [i \in Workers |-> SeedFromU64(0)]
    /\ output = <<>>
    /\ hpc = "idle"
    /\ gens = [i \in Workers |-> NewStreamGenerator(SeedFromU64(0), FALSE, "json", 0)]
    /\ spc = [i \in Workers |-> "idle"]
    /\ pending = [i \in Workers |-> <<>>]
    /\ nsent = [i \in Workers |-> 0]
    /\ queue = <<>>
    /\ closed = FALSE
    /\ cpc = "idle"
    /\ body = <<>>
    /\ delivered = <<>>

\* ================================================================ progress
\* The ProgressInfo of util.rs (atomic counters, a mutex around last_printed)
\* and the one of main.rs (a struct in a Mutex, which generate_chunk unlocks
\* by force before it updates), called by num_threads workers.  The counter
\* of main.rs is an f64 in MB; it is kept here in units of 2^-20 MB, a
\* fraction below one unit dropped.
SIZES == 1048576
MainInterval == 50
UtilInterval == 252
PrintEvery == 1500
UpdateSizes == {1, 3}
TickSteps == {40, 220}

Handler == num_threads
Unlocked == -1

\* util.rs:63 and main.rs:307, the least time between two reports.
Interval == IF progress.kind = "util" THEN UtilInterval ELSE MainInterval

\* main.rs:296-297, new_size.
NewSize(current_size, chunk_size) ==
    (current_size * num_threads) \div SIZES + chunk_size * num_threads

\* No call of the worker is in progress.
Returned(w) == ppc[w] \in {"idle", "wait", "done"}

\* The worker has made all its calls.
Finished(w) == ppc[w] = "done" \/ (ppc[w] = "idle" /\ plocal[w].calls = MaxCalls)

InitProgress ==
    /\ num_threads \in Threads
    /\ progress \in {[kind |-> k, current |-> 0, streamed |-> 0, last_printed |-> 0] :
                         k \in {"util", "main"}}
    /\ pmutex = Unlocked
    /\ now = 0
    /\ ppc = [w \in 0..num_threads |->
                 IF w < num_threads THEN "idle"
                 ELSE IF progress.kind = "main" THEN "wait" ELSE "done"]
    /\ plocal = [w \in 0..num_threads |-> [chunk_size |-> 0, seen |-> 0, at |-> 0, calls |-> 0]]
    /\ reports = <<>>
    /\ psum = [update |-> 0, streamed |-> 0]
    /\ NoCall
    /\ target_size = 0 /\ pretty = FALSE /\ seed = 0 /\ format = "json"
    /\ NoRequest
    /\ NoPool

\* Time passes.
Tick ==
    /\ progress.kind # "none"
    /\ \E d \in TickSteps : now + d <= MaxTime /\ now' = now + d
    /\ UNCHANGED <<progress, pmutex, ppc, plocal, reports, psum, reqVars, batchVars, streamVars, callVars, poolVars>>

\* The worker's position and call count when its call returns: main.rs
\* :158-159, the next record of the loop; the handler has one call.
AfterCall(w) ==
    /\ ppc' = [ppc EXCEPT ![w] = IF w = Handler THEN "done" ELSE "idle"]
    /\ plocal' = [plocal EXCEPT ![w].calls = @ + 1]

\* util.rs:38-41, update: one fetch_add on current_bytes.
Update(w) ==
    /\ progress.kind = "util" /\ w < num_threads
    /\ ppc[w] = "idle" /\ plocal[w].calls < MaxCalls
    /\ \E chunk_size \in UpdateSizes :
           /\ progress' = [progress EXCEPT !.current = @ + chunk_size]
           /\ psum' = [psum EXCEPT !.update = @ + chunk_size]
    /\ AfterCall(w)
    /\ UNCHANGED <<pmutex, now, reports, reqVars, batchVars, streamVars, callVars, poolVars>>

\* util.rs:43-46, update_streamed: one fetch_add on streamed_bytes.
UpdateStreamed(w) ==
    /\ progress.kind = "util" /\ w < num_threads
    /\ ppc[w] = "idle" /\ plocal[w].calls < MaxCalls
    /\ \E chunk_size \in UpdateSizes :
           /\ progress' = [progress EXCEPT !.streamed = @ + chunk_size]
           /\ psum' = [psum EXCEPT !.streamed = @ + chunk_size]
    /\ AfterCall(w)
    /\ UNCHANGED <<pmutex, now, reports, reqVars, batchVars, streamVars, callVars, poolVars>>

\* main.rs:145-150: the mutex is unlocked by force, whoever holds it, and
\* update is entered on the struct inside.
ForceUnlock(w) ==
    /\ progress.kind = "main" /\ w < num_threads
    /\ ppc[w] = "idle" /\ plocal[w].calls < MaxCalls
    /\ pmutex' = Unlocked
    /\ \E chunk_size \in UpdateSizes :
           /\ plocal' = [plocal EXCEPT ![w].chunk_size = chunk_size]
           /\ psum' = [psum EXCEPT !.update = @ + chunk_size]
    /\ ppc' = [ppc EXCEPT ![w] = "load"]
    /\ UNCHANGED <<progress, now, reports, reqVars, batchVars, streamVars, callVars, poolVars>>

\* main.rs:296-297, update reads current_size for new_size.
LoadCurrent(w) ==
    /\ ppc[w] = "load"
    /\ plocal' = [plocal EXCEPT ![w].seen = progress.current]
    /\ ppc' = [ppc EXCEPT ![w] = "store"]
    /\ UNCHANGED <<progress, pmutex, now, reports, psum, reqVars, batchVars, streamVars, callVars, poolVars>>

\* main.rs:300-302 and :154-156: current_size is compared, with the value
\* read before or with the one in memory now (the access is not
\* synchronised), and written; print_progress follows for the records
\* whose count is a multiple of 1500.
StoreCurrent(w) ==
    /\ ppc[w] = "store"
    /\ \E compared \in {plocal[w].seen, progress.current} :
           progress' = IF compared < NewSize(plocal[w].seen, plocal[w].chunk_size)
                       THEN [progress EXCEPT !.current =
                                 NewSize(plocal[w].seen, plocal[w].chunk_size)]
                       ELSE progress
    /\ IF plocal[w].calls % PrintEvery = 0
       THEN ppc' = [ppc EXCEPT ![w] = "lock"] /\ UNCHANGED plocal
       ELSE AfterCall(w)
    /\ UNCHANGED <<pmutex, now, reports, psum, reqVars, batchVars, streamVars, callVars, poolVars>>

\* main.rs:255, generate_data prints once its tasks are collected.
HandlerPrint ==
    /\ ppc[Handler] = "wait"
    /\ \A w \in 0..(num_threads - 1) : Finished(w)
    /\ ppc' = [ppc EXCEPT ![Handler] = "lock"]
    /\ UNCHANGED <<progress, pmutex, now, plocal, reports, psum, reqVars, batchVars, streamVars, callVars, poolVars>>

\* util.rs:61 and main.rs:155, lock(): waits until the mutex is unlocked.
Lock(w) ==
    /\ \/ ppc[w] = "lock"
       \/ progress.kind = "util" /\ w < num_threads
          /\ ppc[w] = "idle" /\ plocal[w].calls < MaxCalls
    /\ pmutex = Unlocked
    /\ pmutex' = w
    /\ ppc' = [ppc EXCEPT ![w] = "check"]
    /\ UNCHANGED <<progress, now, plocal, reports, psum, reqVars, batchVars, streamVars, callVars, poolVars>>

\* util.rs:62-65 and main.rs:306-309, print_progress: now is read and
\* compared with last_printed; inside the interval the call returns and its
\* guard unlocks the mutex.
CheckInterval(w) ==
    /\ ppc[w] = "check"
    /\ IF now - progress.last_printed < Interval
       THEN /\ pmutex' = Unlocked
            /\ AfterCall(w)
       ELSE /\ ppc' = [ppc EXCEPT ![w] = "print"]
            /\ plocal' = [plocal EXCEPT ![w].at = now]
            /\ UNCHANGED pmutex
    /\ UNCHANGED <<progress, now, reports, psum, reqVars, batchVars, streamVars, callVars, poolVars>>

\* util.rs:66-130 and main.rs:310-330, print_progress: last_printed is set,
\* the counters are read and the report is printed; the guard unlocks.
PrintReport(w) ==
    /\ ppc[w] = "print"
    /\ progress' = [progress EXCEPT !.last_printed = plocal[w].at]
    /\ reports' = Append(reports, [by |-> w, at |-> plocal[w].at,
                                   current |-> progress.current,
                                   streamed |-> progress.streamed])
    /\ pmutex' = Unlocked
    /\ AfterCall(w)
    /\ UNCHANGED <<now, psum, reqVars, batchVars, streamVars, callVars, poolVars>>

NextProgress ==
    \/ Tick
    \/ HandlerPrint
    \/ \E w \in 0..num_threads :
           \/ Update(w)
           \/ UpdateStreamed(w)
           \/ ForceUnlock(w)
           \/ LoadCurrent(w)
           \/ StoreCurrent(w)
           \/ Lock(w)
           \/ CheckInterval(w)
           \/ PrintReport(w)

SpecProgress == InitProgress /\ [][NextProgress]_vars

\* =============================================================== generator
\* One StreamGenerator on which generate_chunk and generate_kickoff_chunk
\* are called again and again, in any order.  arg holds the generator as
\* StreamGenerator::new left it; ret holds the generator as it is now, the
\* chunk the last call returned (<<>> for None), the call and the chunk
\* before it, the total length of the chunks returned and the number of
\* kickoff calls.
MaxKickoffs == 2
SessionBudgets == {0, 50, 99, 100, 150, 700, 1400}

SessionGenerators ==
    { NewStreamGenerator(SeedFromU64(sd), p, f, budget) :
          sd \in Seeds, p \in BOOLEAN, f \in {"json", "csv"}, budget \in SessionBudgets }

InitGenerator ==
    /\ arg \in {[kind |-> "session", gen |-> g] : g \in SessionGenerators}
    /\ fn = "none"
    /\ ret = [ gen |-> arg.gen, chunk |-> <<>>, prev_fn |-> "none", prev_chunk |-> <<>>,
               returned |-> 0, kickoffs |-> 0 ]
    /\ pretty = arg.gen.pretty /\ format = arg.gen.format
    /\ target_size = arg.gen.chunk_size /\ num_threads = 1 /\ seed = arg.gen.rng.key
    /\ NoRequest
    /\ NoProgress
    /\ NoPool

\* What a call that returned r leaves in ret.
AfterReturn(r) ==
    [ gen |-> r.gen, chunk |-> r.chunk, prev_fn |-> fn, prev_chunk |-> ret.chunk,
      returned |-> ret.returned + BufLen(r.chunk), kickoffs |-> ret.kickoffs ]

\* processing.rs:58-125, generate_chunk on the generator.
SessionGenerateChunk ==
    /\ arg.kind = "session"
    /\ fn' = "generate_chunk"
    /\ \E r \in {GenerateChunk(ret.gen)} : ret' = AfterReturn(r)
    /\ UNCHANGED <<arg, reqVars, batchVars, streamVars, progVars, poolVars>>

\* processing.rs:127-164, generate_kickoff_chunk on the generator.
SessionGenerateKickoffChunk ==
    /\ arg.kind = "session"
    /\ ret.kickoffs < MaxKickoffs
    /\ fn' = "generate_kickoff_chunk"
    /\ \E r \in {GenerateKickoffChunk(ret.gen)} :
           ret' = [AfterReturn(r) EXCEPT !.kickoffs = @ + 1]
    /\ UNCHANGED <<arg, reqVars, batchVars, streamVars, progVars, poolVars>>

NextGenerator == SessionGenerateChunk \/ SessionGenerateKickoffChunk

SpecGenerator == InitGenerator /\ [][NextGenerator]_vars

\* The caller goes on calling generate_chunk.
FairSpecGenerator == SpecGenerator /\ WF_vars(SessionGenerateChunk)

\* ================================================== src/main3.rs (batch)
\* The par_iter tasks of main3.rs, whose generate_chunk takes the lock of the
\* shared RandomPool on entry and holds it until it returns.  The calls on
\* ProgressInfo are followed under SpecProgress.

\* main3.rs:228-234, the opening of the array.
Main3OpenBracket(p) == IF p THEN <<"[", NL, SP, SP, SP, SP>> ELSE <<"[">>

\* main3.rs:236, the separator between fields.
Main3Separator(p) ==
    IF p THEN <<",", NL, SP, SP, SP, SP>> ELSE <<",", SP, SP, SP, SP, SP>>

\* main3.rs:39-108, write_to_buffer: the bytes of one object.
WriteToBuffer(loc, p, separator) ==
    <<"{">> \o (IF p THEN <<NL, SP, SP, SP, SP>> ELSE <<>>)
    \o NumPrefix(KeyId) \o ItoA(loc.id)
    \o separator \o StrPrefix(KeyName) \o loc.name \o <<Q>>
    \o separator \o StrPrefix(KeyIndustry) \o loc.industry \o <<Q>>
    \o separator \o NumPrefix(KeyRevenue) \o F32ToString(loc.revenue)
    \o separator \o NumPrefix(KeyEmployees) \o ItoA(loc.employees)
    \o separator \o StrPrefix(KeyCity) \o loc.city \o <<Q>>
    \o separator \o StrPrefix(KeyState) \o loc.state \o <<Q>>
    \o separator \o StrPrefix(KeyCountry) \o loc.country \o <<Q>>
    \o (IF p THEN <<NL, SP, SP, SP, SP>> ELSE <<>>) \o <<"}">>

\* main3.rs:153-156 and :168: the pool's numbers are the first words of the
\* rng seeded with 0.
PoolNumber(index) == Word([key |-> 0, stream |-> 0, pos |-> index])

\* main3.rs:245-256: one record, its index from the pool and three draws
\* from the task's rng.
Main3Location(rng, pooled, id) ==
    LET random_number == pooled % 100
    IN  [ loc |-> [ id |-> id,
                    name |-> PoolNames(random_number),
                    industry |-> PoolIndustries(random_number),
                    revenue |-> GenRevenue(rng),
                    employees |-> Main3Numbers(rng, pooled).employees,
                    city |-> PoolCities(random_number),
                    state |-> PoolStates(random_number),
                    country |-> PoolCountries(Main3Numbers(rng, pooled).country_idx) ],
          rng |-> Advance(Advance(Advance(rng))) ]

\* The pool is shared by all requests of the server: a request finds its
\* index where the requests before left it.
PoolIndexes == {0, 1, POOL_SIZE - 1}

InitMain3 ==
    /\ target_size \in Targets
    /\ num_threads \in Threads
    /\ pretty \in BOOLEAN
    /\ seed \in Seeds
    /\ format = "json"
    /\ total_generated = 0
    /\ wpc = [i \in Workers |-> "spawn"]
    /\ start_id = [i \in Workers |-> 0]
    /\ count = [i \in Workers |-> 0]
    /\ woutput = [i \in Workers |-> <<>>]
    /\ wrng = [i \in Workers |-> SeedFromU64(0)]
    /\ output = <<>>
    /\ hpc = "generate"
    /\ gens = [i \in Workers |-> NewStreamGenerator(SeedFromU64(0), FALSE, "json", 0)]
    /\ spc = [i \in Workers |-> "idle"]
    /\ pending = [i \in Workers |-> <<>>]
    /\ nsent = [i \in Workers |-> 0]
    /\ queue = <<>>
    /\ closed = FALSE
    /\ cpc = "idle"
    /\ body = <<>>
    /\ delivered = <<>>
    /\ NoCall
    /\ NoProgress
    /\ \E index \in PoolIndexes : rng_pool = [kind |-> "pool", holder |-> Unlocked, index |-> index]

\* main3.rs:358-360 and :224-225: a task reads start_id under the lock of
\* total_generated and generate_chunk creates its result; the task comes to
\* pools.rng_pool.lock().
Main3Start(i) ==
    /\ rng_pool.kind = "pool"
    /\ hpc = "generate"
    /\ i < num_threads
    /\ wpc[i] = "spawn"
    /\ wrng' = [wrng EXCEPT ![i] = SeedFromU64(seed + i)]
    /\ start_id' = [start_id EXCEPT ![i] = total_generated]
    /\ woutput' = [woutput EXCEPT ![i] = <<>>]
    /\ count' = [count EXCEPT ![i] = 0]
    /\ wpc' = [wpc EXCEPT ![i] = "lock_pool"]
    /\ UNCHANGED <<total_generated, output, hpc>>
    /\ UNCHANGED <<reqVars, streamVars, callVars, progVars, poolVars>>

\* main3.rs:226-234: lock() returns once no task holds the pool; the first
\* task opens the array.
Main3LockPool(i) ==
    /\ wpc[i] = "lock_pool"
    /\ rng_pool.holder = Unlocked
    /\ rng_pool' = [rng_pool EXCEPT !.holder = i]
    /\ woutput' = [woutput EXCEPT ![i] =
                      IF i = 0 THEN <<Seg("open", Main3OpenBracket(pretty))>> ELSE <<>>]
    /\ wpc' = [wpc EXCEPT ![i] = "loop"]
    /\ UNCHANGED <<total_generated, start_id, count, wrng, output, hpc>>
    /\ UNCHANGED <<reqVars, streamVars, callVars, progVars>>

\* main3.rs:240-262: one iteration of generate_chunk's loop.
Main3Record(i) ==
    /\ rng_pool.kind = "pool"
    /\ wpc[i] = "loop"
    /\ LoopCondition(BufLen(woutput[i]), ChunkSize)
    /\ LET new == Main3Location(wrng[i], PoolNumber(rng_pool.index),
                                CurrentId(start_id[i], count[i]))
           comma == IF NeedsComma(count[i], i = 0)
                    THEN <<Seg("comma", RecordComma(pretty))>> ELSE <<>>
       IN  /\ woutput' = [woutput EXCEPT ![i] =
                             @ \o comma
                               \o <<Seg("record", WriteToBuffer(new.loc, pretty,
                                                                Main3Separator(pretty)))>>]
           /\ wrng' = [wrng EXCEPT ![i] = new.rng]
    /\ rng_pool' = [rng_pool EXCEPT !.index = (@ + 1) % POOL_SIZE]
    /\ count' = [count EXCEPT ![i] = @ + 1]
    /\ UNCHANGED <<total_generated, wpc, start_id, output, hpc>>
    /\ UNCHANGED <<reqVars, streamVars, callVars, progVars>>

\* main3.rs:264-268 and :371: generate_chunk returns, which drops the guard
\* of the pool, and the task adds its count to total_generated.
Main3Return(i) ==
    /\ rng_pool.kind = "pool"
    /\ wpc[i] = "loop"
    /\ ~LoopCondition(BufLen(woutput[i]), ChunkSize)
    /\ rng_pool' = [rng_pool EXCEPT !.holder = Unlocked]
    /\ total_generated' = total_generated + count[i]
    /\ wpc' = [wpc EXCEPT ![i] = "done"]
    /\ UNCHANGED <<start_id, count, woutput, wrng, output, hpc>>
    /\ UNCHANGED <<reqVars, streamVars, callVars, progVars>>

\* main3.rs:375-405: the chunks are joined in task order and the array
\* closed, as in main.rs.
Main3Combine ==
    /\ rng_pool.kind = "pool"
    /\ Combine

NextMain3 ==
    \/ \E i \in Workers : Main3Start(i)
    \/ \E i \in Workers : Main3LockPool(i)
    \/ \E i \in Workers : Main3Record(i)
    \/ \E i \in Workers : Main3Return(i)
    \/ Main3Combine

SpecMain3 == InitMain3 /\ [][NextMain3]_vars

\* ================================================================ claims
IsSpace(b) == b = SP \/ b = NL
StripWs(bytes) == SelectSeq(bytes, LAMBDA b : ~IsSpace(b))
CountOf(bytes, b) == Cardinality({k \in 1..Len(bytes) : bytes[k] = b})
ActiveWorkers == {i \in Workers : i < num_threads}

RECURSIVE SumTo(_, _)
SumTo(f, n) == IF n < 0 THEN 0 ELSE f[n] + SumTo(f, n - 1)

\* The bytes the consumer has handed to the transport.
DeliveredBytes == BufLen(body)

\* C1: when a request completes, the bytes delivered to the consumer are at
\* least the target T and less than T + micro_chunk_size * W.
C1_DeliveredWithinBounds ==
    cpc = "complete" =>
        /\ DeliveredBytes >= target_size
        /\ DeliveredBytes < target_size + OPTIMAL_CHUNK_SIZE * num_threads

\* C2: in a completed request all record ids are pairwise distinct: the id
\* ranges of two different workers never overlap.
C2_IdsDistinct ==
    hpc = "done" =>
        \A i, j \in ActiveWorkers :
            i # j => \A a \in 1..count[i], b \in 1..count[j] :
                        WorkerIds(i)[a] # WorkerIds(j)[b]

\* The generated bytes in memory: the tasks' buffers while they are being
\* filled and collected, the combined body afterwards.
HeldBytes ==
    IF hpc = "done" THEN BufLen(output)
    ELSE SumTo([i \in Workers |-> BufLen(woutput[i])], MaxThreads - 1)

\* A number of chunks proportional to the worker count, each a micro-chunk
\* and the slack of one record.
MemoryBound == num_threads * (QueueFactor + 1) * (OPTIMAL_CHUNK_SIZE + 1024)

\* C3: at every point of a request the generated data held in memory stays
\* within a bound proportional to the worker count and independent of the
\* target size.
C3_MemoryBounded == hpc # "idle" => HeldBytes <= MemoryBound

\* The chunks of shard s the pipeline holds or has delivered, oldest first.
ChunksInFlight(s) ==
    SelectSeq(delivered \o [k \in 1..Len(queue) |->
                               [shard |-> queue[k].shard, seq |-> queue[k].seq]],
              LAMBDA e : e.shard = s)

\* C4: the queue never holds more than its capacity (a send on a full queue
\* does not complete), and while the queue is open every chunk a shard sent
\* is in the queue or delivered, exactly once and in the order sent.
C4_Backpressure ==
    /\ Len(queue) <= QueueCapacity
    /\ ~closed =>
          \A s \in Workers :
              /\ Len(ChunksInFlight(s)) = nsent[s]
              /\ \A k \in 1..nsent[s] : ChunksInFlight(s)[k].seq = k

C4_Witness ==
    /\ ~closed
    /\ Len(queue) = QueueCapacity
    /\ \E s \in Workers : spc[s] = "send"
    /\ delivered # <<>>

\* C5: once the sink has failed and the queue is closed, no send completes,
\* a sending shard can only fail its send and terminate, a cancelled shard
\* generates nothing more, and eventually every shard has terminated.
C5_Cancellation ==
    /\ [](cpc = "aborted" => closed)
    /\ [](closed => <>(\A s \in ActiveWorkers : Terminated(s)))
    /\ [][closed =>
            /\ nsent' = nsent
            /\ queue' = queue
            /\ \A s \in Workers :
                  /\ spc[s] = "send" => spc'[s] \in {"send", "cancelled"}
                  /\ spc[s] = "cancelled" => spc'[s] = "cancelled" /\ gens'[s] = gens[s]]_vars

C5_Witness ==
    /\ closed
    /\ \E s \in ActiveWorkers :
          /\ spc[s] = "cancelled"
          /\ nsent[s] > 0
          /\ gens[s].bytes_generated < gens[s].chunk_size

WellFormedTags(t) ==
    /\ Len(t) >= 2
    /\ t[1] = "open"
    /\ t[Len(t)] = "close"
    /\ Len(t) > 2 => Len(t) % 2 = 1
    /\ \A k \in 2..(Len(t) - 1) : t[k] = (IF k % 2 = 0 THEN "record" ELSE "comma")

\* C7: the body of a completed JSON request is a well-formed array: '['
\* first and once, the objects separated by exactly one comma, none before
\* the first or after the last, ']' last and once.
C7_WellFormedArray ==
    hpc = "done" =>
        /\ WellFormedTags(Tags(output))
        /\ \A k \in 1..Len(output) :
              /\ output[k].tag = "open" => StripWs(output[k].bytes) = <<"[">>
              /\ output[k].tag = "comma" => StripWs(output[k].bytes) = <<",">>
              /\ output[k].tag = "close" => StripWs(output[k].bytes) = <<"]">>

AllKeys == <<KeyId, KeyName, KeyIndustry, KeyRevenue, KeyEmployees, KeyCity, KeyState, KeyCountry>>

\* Whether the quoted key AllKeys[k], followed by a colon, starts at byte i.
KeyStartsAt(bytes, i, k) ==
    /\ i + Len(AllKeys[k]) + 2 <= Len(bytes)
    /\ SubSeq(bytes, i, i + Len(AllKeys[k]) + 2) = <<Q>> \o AllKeys[k] \o <<Q, ":">>

KeyPositions(bytes) ==
    {i \in 1..Len(bytes) : bytes[i] = Q /\ \E k \in 1..8 : KeyStartsAt(bytes, i, k)}

RECURSIVE KeysAt(_, _)
\* The keys found at the positions ps, in the order of the positions.
KeysAt(bytes, ps) ==
    IF ps = {} THEN <<>>
    ELSE LET i == CHOOSE x \in ps : \A y \in ps : x <= y
         IN  <<CHOOSE k \in 1..8 : KeyStartsAt(bytes, i, k)>> \o KeysAt(bytes, ps \ {i})

\* The keys of an object, as indices into AllKeys, in the order written.
KeysInOrder(bytes) == KeysAt(bytes, KeyPositions(bytes))

\* C8: every JSON object the encoder emits has exactly the eight keys id,
\* name, industry, revenue, employees, city, state, country, once each, in
\* that order.
C8_JsonKeys ==
    format = "json" =>
        \A s \in Workers : \A k \in 1..Len(pending[s]) :
            pending[s][k].tag = "record" =>
                KeysInOrder(pending[s][k].bytes) = <<1, 2, 3, 4, 5, 6, 7, 8>>

\* A CSV data line: eight non-empty columns, so seven commas, none leading,
\* trailing or doubled, and one newline, at the end.
CsvLineOk(line) ==
    /\ Len(line) >= 2
    /\ line[1] # ","
    /\ line[Len(line)] = NL
    /\ CountOf(line, NL) = 1
    /\ line[Len(line) - 1] # ","
    /\ \A k \in 1..(Len(line) - 1) : ~(line[k] = "," /\ line[k + 1] = ",")

\* C9: every CSV data line holds the eight field values in order, separated
\* by single commas, with no leading or trailing comma and no empty id
\* column, and ends with exactly one newline.
C9_CsvLine ==
    format = "csv" =>
        \A s \in Workers : \A k \in 1..Len(pending[s]) :
            pending[s][k].tag = "record" => CsvLineOk(pending[s][k].bytes)

Completed == hpc = "done" \/ cpc = "complete"
ResponseBody == IF hpc = "done" THEN output ELSE body
NoRecordGenerated ==
    /\ \A k \in 1..Len(ResponseBody) : ResponseBody[k].tag # "record"
    /\ \A i \in Workers : count[i] = 0 /\ gens[i].bytes_generated = 0 /\ nsent[i] = 0

\* C10 as stated: with a target of 0 bytes no record is generated, the JSON
\* body is exactly '[]' and the CSV body exactly the header line.
C10_ZeroTargetAsStated ==
    (target_size = 0 /\ Completed) =>
        /\ NoRecordGenerated
        /\ Flatten(ResponseBody) = (IF format = "csv" THEN CsvHeaderLine ELSE <<"[", "]">>)

\* C10, amended: with a target of 0 bytes no record is generated and the body
\* is the framing only: for JSON '[' and ']' with nothing but pretty-printing
\* whitespace around them, exactly '[]' when pretty is false; for CSV exactly
\* the header line.
C10_ZeroTarget ==
    (target_size = 0 /\ Completed) =>
        /\ NoRecordGenerated
        /\ format = "csv" => Flatten(ResponseBody) = CsvHeaderLine
        /\ format = "json" => StripWs(Flatten(ResponseBody)) = <<"[", "]">>
        /\ (format = "json" /\ ~pretty) => Flatten(ResponseBody) = <<"[", "]">>

C10_Witness == target_size = 0 /\ hpc = "done" /\ num_threads = 2 /\ ~pretty

RECURSIVE TaskLoop(_, _, _, _, _)
\* main.rs:84-160: generate_chunk's loop run to its end for task i, from
\* the id `id`, the rng `rng`, `cnt` records written and the buffer `out`.
TaskLoop(i, id, rng, cnt, out) ==
    IF ~LoopCondition(BufLen(out), ChunkSize) THEN out
    ELSE LET new == NewLocation(rng, id)
             comma == IF NeedsComma(cnt, i = 0)
                      THEN <<Seg("comma", RecordComma(pretty))>> ELSE <<>>
         IN  TaskLoop(i, id + 1, new.rng, cnt + 1,
                      out \o comma \o <<Seg("record", WriteLocation(new.loc, pretty))>>)

\* main.rs:56-166 as called at main.rs:226-238: the buffer task i returns
\* when it has read `sid` from total_generated.
TaskOutput(i, sid) ==
    TaskLoop(i, sid, SeedFromU64(seed + i), 0,
             IF i = 0 THEN <<Seg("open", OpenBracket(pretty))>> ELSE <<>>)

\* The response of the run in which every task has started before any has
\* returned, a function of the seed, the target and the task count.
ResponseAllStartedFirst ==
    Concat([k \in 1..num_threads |-> TaskOutput(k - 1, 0)])
        \o <<Seg("close", CloseBracket(pretty))>>

\* C11: two compact-JSON requests with the same seed, target size and shard
\* count give byte-identical responses whatever the scheduling: every
\* completed run's response is the one of the run in which all tasks start
\* together.
C11_SameResponse ==
    (hpc = "done" /\ ~pretty) => Flatten(output) = Flatten(ResponseAllStartedFirst)

\* The records of a buffer, in order.
RecordsOf(buf) == SelectSeq(buf, LAMBDA e : e.tag = "record")

\* The bytes the generator's encoder gives a record.
EncodedAs(fmt, location) ==
    IF fmt = "json" THEN WriteLocationJsonSimd(location) ELSE WriteLocationCsvSimd(location)

\* C12: record synthesis is a function of (seed, offset): whatever a shard
\* and the other shards have synthesized before, the generator's rng is the
\* one it was seeded with and the record at offset k of every chunk is the
\* record drawn from stream k of that rng.
C12_SynthesisDeterministic ==
    \A s \in ActiveWorkers :
        /\ gens[s].rng = SeedFromU64(seed + s)
        /\ \A k \in 1..Len(RecordsOf(pending[s])) :
              RecordsOf(pending[s])[k].bytes
                  = EncodedAs(format, LocationAt(SeedFromU64(seed + s), k - 1))

C12_Witness ==
    /\ num_threads = 2
    /\ nsent[0] >= 1 /\ nsent[1] >= 1
    /\ Len(RecordsOf(pending[0])) >= 1
    /\ gens[0].bytes_generated > BufLen(pending[0])

\* C13: the byte budgets of the W shards sum to exactly the target: each
\* shard gets floor(T / W) and the last one the remainder T mod W as well.
C13_BudgetsSum ==
    hpc # "idle" =>
        /\ SumTo([i \in Workers |-> IF i < num_threads THEN TaskBudget(i) ELSE 0],
                 MaxThreads - 1) = target_size
        /\ \A i \in ActiveWorkers :
              TaskBudget(i) = (target_size \div num_threads)
                              + (IF i = num_threads - 1 THEN target_size % num_threads ELSE 0)

\* The bytes a buffer holds when the record at segment k is begun: those
\* before the record in the batch loop, which tests the length before the
\* comma, and in the streaming loop, which counts the comma with the record.
BytesBeforeRecord(buf, k) ==
    LenRange(buf, 1, k - 1)
        - (IF k > 1 /\ buf[k - 1].tag = "comma" THEN Len(buf[k - 1].bytes) ELSE 0)

\* A record's bytes are those of a whole object or a whole line.
WholeRecord(fmt, bytes) ==
    /\ bytes # <<>>
    /\ fmt = "json" => bytes[1] = "{" /\ CountOf(bytes, "{") = 1 /\ CountOf(bytes, "}") = 1
    /\ fmt = "csv" => bytes[Len(bytes)] = NL /\ CountOf(bytes, NL) = 1

\* C14: a shard's output is a whole number of complete records, and every
\* record is begun while the shard's byte count is below its budget: the
\* record that first reaches the budget is written to its end and is the
\* last one.
C14_WholeRecords ==
    /\ \A i \in ActiveWorkers : \A k \in 1..Len(woutput[i]) :
          woutput[i][k].tag = "record" =>
              /\ WholeRecord("json", woutput[i][k].bytes)
              /\ BytesBeforeRecord(woutput[i], k) < TaskBudget(i)
    /\ \A i \in ActiveWorkers : wpc[i] = "done" => BufLen(woutput[i]) >= TaskBudget(i)
    /\ \A s \in ActiveWorkers : \A k \in 1..Len(pending[s]) :
          pending[s][k].tag = "record" =>
              /\ WholeRecord(format, pending[s][k].bytes)
              /\ gens[s].bytes_generated - BufLen(pending[s])
                    + BytesBeforeRecord(pending[s], k) < gens[s].chunk_size
    /\ \A s \in ActiveWorkers : \A k \in 1..Len(pending[s]) :
          pending[s][k].tag \in {"record", "comma"}

C14_Witness ==
    \E s \in ActiveWorkers :
        /\ spc[s] = "send"
        /\ gens[s].chunk_size > 0
        /\ gens[s].bytes_generated > gens[s].chunk_size
        /\ nsent[s] = 0

IsPrefix(p, bytes) == Len(p) <= Len(bytes) /\ SubSeq(bytes, 1, Len(p)) = p

\* The first bytes of an object of main.rs whose id is `id`.
ObjectStart(id, p) ==
    <<"{">> \o (IF p THEN <<NL, SP, SP, SP, SP>> ELSE <<>>)
    \o NumPrefix(KeyId) \o ItoA(id) \o FieldSeparator(p)

\* C15: the k-th record of a shard carries the id id_base + k - 1, and the
\* body of a completed request holds every shard's records in the order the
\* shard wrote them.
C15_IdsConsecutive ==
    /\ \A i \in ActiveWorkers :
          /\ Len(RecordsOf(woutput[i])) = count[i]
          /\ \A k \in 1..count[i] :
                IsPrefix(ObjectStart(start_id[i] + k - 1, pretty),
                         RecordsOf(woutput[i])[k].bytes)
    /\ hpc = "done" =>
          RecordsOf(output) = Concat([k \in 1..num_threads |-> RecordsOf(woutput[k - 1])])

C15_Witness ==
    /\ hpc = "done"
    /\ num_threads = 2
    /\ count[0] >= 2 /\ count[1] >= 2
    /\ start_id[1] > 0

RECURSIVE EscapeRange(_, _, _)
\* Bytes lo..hi of a value, a backslash put before each double quote,
\* backslash and newline.
EscapeRange(bytes, lo, hi) ==
    IF lo > hi THEN <<>>
    ELSE IF lo = hi
    THEN (IF NeedsEscape(bytes[lo]) THEN <<"\\", bytes[lo]>> ELSE <<bytes[lo]>>)
    ELSE LET mid == (lo + hi) \div 2
         IN  EscapeRange(bytes, lo, mid) \o EscapeRange(bytes, mid + 1, hi)

Escaped(bytes) == EscapeRange(bytes, 1, Len(bytes))

\* A location whose string values are escaped already.
EscapedStrings(l) ==
    [l EXCEPT !.name = Escaped(@), !.industry = Escaped(@), !.city = Escaped(@),
              !.state = Escaped(@), !.country = Escaped(@)]

\* C16: for every string value the JSON encoder writes a backslash before
\* each double quote, backslash and newline of the value: the object is the
\* one whose values are copied from the escaped strings.
C16_StringsEscaped ==
    /\ fn = "write_location_json_simd" =>
          ret = <<"{">> \o NumericFields(arg.location)
                \o StringFieldsShort(EscapedStrings(arg.location))
                \o JsonPatterns.ending_compact
    /\ fn = "write_location" => ret = WriteLocation(EscapedStrings(arg.location), pretty)

\* C17: the industry value of every record handed to the encoder holds no
\* comma, so all CSV data lines hold the same number of commas.
C17_IndustryWithoutComma ==
    \A s \in ActiveWorkers :
        LET records == RecordsOf(pending[s])
        IN  /\ \A k \in 1..Len(records) :
                  CountOf(LocationAt(gens[s].rng, k - 1).industry, ",") = 0
            /\ format = "csv" =>
                  \A j, k \in 1..Len(records) :
                      CountOf(records[j].bytes, ",") = CountOf(records[k].bytes, ",")

\* The power of 1024 the statement gives a unit: b 0, kb 1, mb 2, gb 3, tb 4.
UnitPower(unit) ==
    CASE ToLowercase(unit) = <<"b">> -> 0
      [] ToLowercase(unit) = <<"k", "b">> -> 1
      [] ToLowercase(unit) = <<"m", "b">> -> 2
      [] ToLowercase(unit) = <<"g", "b">> -> 3
      [] ToLowercase(unit) = <<"t", "b">> -> 4
      [] OTHER -> -1

\* C18: parse_size applied to a decimal number n followed by the unit b, kb,
\* mb, gb or tb, in any letter case, returns n * 1024^k for k = 0, 1, 2, 3, 4
\* respectively (for the products that fit 64 bits).
C18_ParseSizeUnits ==
    fn \in {"util::parse_size", "main::parse_size"} =>
        \A n \in SampleNumbers, unit \in SampleUnitTexts :
            ( /\ arg.size.text = ItoA(n) \o unit
              /\ UnitPower(unit) >= 0
              /\ ~MulPow1024(U64(n), UnitPower(unit)).wrapped )
            => ret = [ok |-> TRUE, total_size |-> MulPow1024(U64(n), UnitPower(unit)).limbs]

\* The size parameter is absent, or every one of the results parse_size has
\* on it is an Err.
Rejected(size, results) ==
    ~size.present \/ \A r \in results : ~r.ok /\ ~Panicked(r)

\* C19: when the size parameter is absent or is rejected by parse_size, the
\* target is 1 MiB (1048576 bytes) and no error is the result.
C19_DefaultTarget ==
    /\ (fn = "get_size_info" /\ Rejected(arg.size, UtilParseSize(arg.size.text)))
           => ret = [ok |-> TRUE, total_size |-> U64(BYTE_SIZE)]
    /\ (fn = "main::target_size" /\ Rejected(arg.size, MainParseSize(arg.size.text)))
           => ret = [ok |-> TRUE, total_size |-> U64(BYTE_SIZE)]

\* The length of the last record of a chunk, its leading comma included for
\* JSON as generate_chunk counts it.
LastRecordLen(chunk, fmt) ==
    IF chunk = <<>> THEN 0
    ELSE BufLen(SubSeq(chunk, Len(chunk) - (IF fmt = "json" THEN 1 ELSE 0), Len(chunk)))

\* C20: a chunk a shard hands over is never longer than the 16 KiB
\* micro-chunk size plus the length of its last record, whatever the budget.
C20_ChunkBounded ==
    fn = "generate_chunk" =>
        BufLen(ret.chunk) <= OPTIMAL_CHUNK_SIZE + LastRecordLen(ret.chunk, arg.gen.format)

\* No call on the ProgressInfo is in progress.
AllReturned == progress.kind # "none" /\ \A w \in DOMAIN ppc : Returned(w)

\* Once all calls have returned each counter is the sum of the arguments
\* passed to its update operation.
CountersAreSums ==
    AllReturned => progress.current = psum.update /\ progress.streamed = psum.streamed

\* A step leaves each counter as it was or larger.
CountersGrow ==
    progress.kind # "none" =>
        progress'.current >= progress.current /\ progress'.streamed >= progress.streamed

\* C21: under any interleaving of update and update_streamed calls neither
\* progress counter ever decreases, and once all calls have returned each
\* counter equals the sum of the arguments passed to its update operation.
C21_CountersExact == [][CountersGrow]_vars /\ []CountersAreSums

\* Byte i of the object starts a line's content: before it come a newline
\* and at least two spaces, and nothing else.
OnOwnLine(bytes, i) ==
    \E j \in 1..(i - 3) :
        bytes[j] = NL /\ \A m \in (j + 1)..(i - 1) : bytes[m] = SP

\* Every field is on its own line, indented, and a newline precedes the
\* closing brace.
PrettyLayout(bytes) ==
    /\ \A k \in 1..8 :
           \E i \in 1..Len(bytes) : KeyStartsAt(bytes, i, k) /\ OnOwnLine(bytes, i)
    /\ \E i \in 1..Len(bytes) : bytes[i] = "}" /\ OnOwnLine(bytes, i)

\* The string values of the location hold no newline of their own.
NoNewlineInValues(location) ==
    \A v \in {location.name, location.industry, location.city, location.state,
              location.country} : CountOf(v, NL) = 0

\* C22: the JSON encoder honours the pretty flag: with pretty=false the
\* object holds no line break, with pretty=true every field is on its own
\* indented line and a newline precedes the closing brace, so that the two
\* modes give different bytes for the same record.
C22_PrettyHonoured ==
    (fn \in {"write_location_json_simd", "write_location"}
         /\ NoNewlineInValues(arg.location)) =>
        IF pretty THEN PrettyLayout(ret) ELSE CountOf(ret, NL) = 0

\* C23: every synthesized record has employees in [10, 10000), a
\* categorical index in [0, 100) and a country index drawn from a fixed
\* sub-range strictly smaller than the 50-entry country table, and every
\* index is within the bounds of the table it indexes.
C23_IndexRanges ==
    fn \in {"random_numbers", "main3::numbers"} =>
        /\ ret.employees >= 10 /\ ret.employees < 10000
        /\ ret.base_random >= 0 /\ ret.base_random < 100
        /\ ret.country_idx >= 0 /\ ret.country_idx < ret.country_end
        /\ ret.country_end < ret.countries_len
        /\ ret.countries_len = 50
        /\ ret.base_random < ret.pool_len
        /\ ret.country_idx < ret.countries_len

\* Any two reports printed one after the other are for instants at least
\* the minimum interval of 50 ms apart.
ReportsApart ==
    \A k \in 2..Len(reports) : reports[k].at - reports[k - 1].at >= MainInterval

\* A print_progress call that finds less than 50 ms elapsed since
\* last_printed prints nothing and leaves last_printed and the counters as
\* they were.
QuietInsideInterval ==
    \A w \in DOMAIN ppc :
        (ppc[w] = "check" /\ ppc'[w] # "check" /\ now - progress.last_printed < MainInterval)
            => reports' = reports /\ progress' = progress /\ Returned(w)'

\* C24: print_progress emits a report only when at least the minimum
\* interval (50 ms) has elapsed since the last emitted report: a call inside
\* the interval prints nothing and changes neither last_printed nor the
\* counters, and any two emitted reports are at least the interval apart.
C24_RateLimited == []ReportsApart /\ [][QuietInsideInterval]_vars

\* C25: the bytes the JSON encoder appends for a record are the same
\* whatever the length of the buffer it appends to, on the short-string
\* path and on the long-string path: they are the bytes it writes to an
\* empty buffer.
C25_BufferIndependent ==
    fn = "write_location_json_simd_on" => ret.bytes = WriteLocationJsonSimd(arg.location)

C25_Witness ==
    /\ fn = "write_location_json_simd_on"
    /\ ret.len % CACHE_LINE_SIZE # 0
    /\ TotalStringLen(arg.location) > PARALLEL_THRESHOLD
    /\ AnyEscape(arg.location.name)

\* C26: whenever generate_chunk returns None the shard's budget is met:
\* bytes_generated >= chunk_size.
C26_NoneOnlyWhenMet ==
    (fn = "generate_chunk" /\ ret.chunk = <<>>) => BudgetMet(ret.gen)

\* A call of generate_chunk has returned None.
NoneReturned == fn = "generate_chunk" /\ ret.chunk = <<>>

\* A call of generate_chunk that returns a chunk returns a non-empty one and
\* leaves bytes_generated strictly larger than it found it.
ChunkAdvances ==
    (fn' = "generate_chunk" /\ ret'.chunk # <<>>)
        => /\ BufLen(ret'.chunk) > 0
           /\ ret'.gen.bytes_generated > ret.gen.bytes_generated

\* C27: for every finite budget, repeated calls of generate_chunk reach None
\* after finitely many calls: every chunk returned is non-empty and strictly
\* increases bytes_generated, and once a call has returned None every later
\* call of generate_chunk returns None too.
C27_ReachesNone ==
    /\ [][ChunkAdvances]_vars
    /\ [](NoneReturned => [](fn = "generate_chunk" => ret.chunk = <<>>))
    /\ <>NoneReturned

\* generate_chunk returned a chunk and, called again, returned None, on a
\* generator that has produced bytes of a positive budget.
C27_Witness ==
    /\ NoneReturned
    /\ ret.prev_fn = "generate_chunk"
    /\ ret.prev_chunk # <<>>
    /\ ret.gen.bytes_generated > 0

\* C28: in every reachable state of a StreamGenerator, bytes_generated equals
\* the total length of all chunks the generator has returned so far, from
\* generate_kickoff_chunk and from generate_chunk alike.
C28_BytesAccounted == ret.gen.bytes_generated = ret.returned

\* A call of generate_chunk leaves the generator's rng as it found it.
ChunkKeepsRng == (fn' = "generate_chunk") => ret'.gen.rng = ret.gen.rng

\* The record at position k of a chunk of generate_chunk is the record drawn
\* from stream k - 1 of the generator's rng.
ChunkFromStreams ==
    fn = "generate_chunk" =>
        \A k \in 1..Len(RecordsOf(ret.chunk)) :
            RecordsOf(ret.chunk)[k].bytes
                = EncodedAs(ret.gen.format, LocationAt(ret.gen.rng, k - 1))

\* Two chunks of generate_chunk with no other call between them carry the
\* same record at every position both have.
ChunksRepeat ==
    (fn = "generate_chunk" /\ ret.prev_fn = "generate_chunk") =>
        \A k \in 1..Min(Len(RecordsOf(ret.chunk)), Len(RecordsOf(ret.prev_chunk))) :
            RecordsOf(ret.chunk)[k].bytes = RecordsOf(ret.prev_chunk)[k].bytes

\* C29: generate_chunk leaves the generator's rng unchanged and numbers its
\* offsets from 0 in every call, so the record at position k of a chunk is
\* drawn from stream k of the same rng state in every chunk: two chunks of one
\* generator with no kickoff call between them carry equal field values at
\* equal positions.
C29_ChunksRepeat ==
    /\ [][ChunkKeepsRng]_vars
    /\ [](ChunkFromStreams /\ ChunksRepeat)

\* Two successive chunks of generate_chunk with several records each, on a
\* generator whose rng a kickoff call has moved before.
C29_Witness ==
    /\ fn = "generate_chunk" /\ ret.prev_fn = "generate_chunk"
    /\ Len(RecordsOf(ret.chunk)) >= 2
    /\ Len(RecordsOf(ret.prev_chunk)) >= 2
    /\ ret.kickoffs >= 1

\* Whether byte b can be part of a number's text.
IsNumberByte(b) == IsDigit(b) \/ b = "."

\* The number text that starts at byte j: the bytes from j up to the first one
\* that is no digit and no point.
NumberAt(bytes, j) ==
    LET ends == {e \in j..Len(bytes) : ~IsNumberByte(bytes[e])}
        stop == IF ends = {} THEN Len(bytes) + 1
                ELSE CHOOSE e \in ends : \A e2 \in ends : e <= e2
    IN  SubSeq(bytes, j, stop - 1)

\* The quoted key AllKeys[k] occurs in the object and the number after its
\* colon, spaces and zero bytes skipped, is `value`.
ValueFollowsKey(bytes, k, value) ==
    \E i \in 1..Len(bytes) :
        /\ KeyStartsAt(bytes, i, k)
        /\ \E j \in (i + Len(AllKeys[k]) + 3)..Len(bytes) :
               /\ \A m \in (i + Len(AllKeys[k]) + 3)..(j - 1) : bytes[m] \in {SP, NUL}
               /\ bytes[j] \notin {SP, NUL}
               /\ NumberAt(bytes, j) = value

\* C30: in the JSON encoder each numeric value is written under its own
\* field's key: the record's revenue follows the key "revenue", its employee
\* count follows the key "employees", and the key "id" is followed by the
\* record's id.
C30_NumbersUnderOwnKeys ==
    fn = "write_location_json_simd" =>
        /\ ValueFollowsKey(ret, 4, DtoaFormat(arg.location.revenue))
        /\ ValueFollowsKey(ret, 5, ItoA(arg.location.employees))
        /\ ValueFollowsKey(ret, 1, ItoA(arg.location.id))

\* The string values of the location hold no zero byte of their own.
NoZeroInValues(location) ==
    \A v \in {location.name, location.industry, location.city, location.state,
              location.country} : CountOf(v, NUL) = 0

\* C31: every template the JSON encoder copies (separator, key prefix,
\* closing quote, object ending) contributes exactly the bytes of its literal
\* to the output: no zero padding byte of the 32-byte template arrays reaches
\* the output buffer.
C31_NoPaddingInOutput ==
    (fn = "write_location_json_simd" /\ NoZeroInValues(arg.location))
        => CountOf(ret, NUL) = 0

\* The step is one of worker w.
StepOf(w) == ppc'[w] # ppc[w] \/ plocal'[w] # plocal[w]

\* Worker w holds the mutex inside print_progress.
HoldsInPrint(w) == pmutex = w /\ ppc[w] \in {"check", "print"}

\* The step is one of worker w that reads or writes what the mutex guards:
\* the struct of main.rs in update and in print_progress, last_printed of
\* util.rs in print_progress.
AccessBy(w) == StepOf(w) /\ ppc[w] \in {"load", "store", "check", "print"}

\* The step is one of worker w that unlocks the mutex: force_unlock at
\* main.rs:149, or the guard of print_progress dropped at its return.
ReleaseBy(w) ==
    \/ ppc[w] = "idle" /\ ppc'[w] = "load"
    \/ ppc[w] \in {"check", "print"} /\ ppc'[w] \in {"idle", "done"}

\* While a worker holds the mutex inside print_progress no other worker
\* reads or writes the fields.
ExclusiveAccess ==
    \A u, w \in DOMAIN ppc : (u # w /\ HoldsInPrint(u)) => ~AccessBy(w)

\* A worker that unlocks the mutex holds it.
ReleaseByHolder == \A w \in DOMAIN ppc : ReleaseBy(w) => pmutex = w

\* C32: access to the shared ProgressInfo is mutually exclusive: while one
\* worker holds the ProgressInfo mutex inside print_progress no other worker
\* reads or writes ProgressInfo's fields, and no worker releases a lock it
\* does not hold.
C32_MutualExclusion == [][ExclusiveAccess /\ ReleaseByHolder]_vars

\* x * m on six 16-bit limbs, lowest first, for m up to 1024: no bit of the
\* products taken here is lost.
WideMul(x, m) ==
    LET t1 == x[1] * m
        t2 == x[2] * m + (t1 \div LimbBase)
        t3 == x[3] * m + (t2 \div LimbBase)
        t4 == x[4] * m + (t3 \div LimbBase)
        t5 == x[5] * m + (t4 \div LimbBase)
        t6 == x[6] * m + (t5 \div LimbBase)
    IN  <<t1 % LimbBase, t2 % LimbBase, t3 % LimbBase, t4 % LimbBase, t5 % LimbBase, t6>>

RECURSIVE WideTimes1024(_, _)
WideTimes1024(x, k) == IF k = 0 THEN x ELSE WideTimes1024(WideMul(x, 1024), k - 1)

\* number * multiplier as a mathematical product, on six limbs.
ExactProduct(number, m) ==
    WideTimes1024(WideMul(U64(number) \o <<0, 0>>, m.small), m.pow)

\* The multiplier the parse_size called gives the unit.
MultiplierOf(f, unit) ==
    IF f = "util::parse_size" THEN UtilMultiplier(unit) ELSE MainMultiplier(unit)

\* parse_size accepts the string: it has a first non-digit, digits before it
\* that make a number of 64 bits, and a recognised unit from it on.
Accepts(f, size_str) ==
    /\ SplitSize(size_str).at # 0
    /\ SplitSize(size_str).number_str # <<>>
    /\ FitsU64(SplitSize(size_str).number_str)
    /\ MultiplierOf(f, SplitSize(size_str).unit).pow >= 0

\* C33: for every input parse_size accepts, the returned total_size is exactly
\* number * multiplier as a mathematical product: the 64-bit multiplication
\* never wraps around or aborts, large numbers with the tb unit included.
C33_ProductExact ==
    (fn \in {"util::parse_size", "main::parse_size"} /\ Accepts(fn, arg.size.text)) =>
        /\ ret.ok
        /\ ret.total_size \o <<0, 0>>
               = ExactProduct(DecimalValue(SplitSize(arg.size.text).number_str),
                              MultiplierOf(fn, SplitSize(arg.size.text).unit))

\* The number of digits the string starts with.
LeadingDigits(text) ==
    IF FindNonDigit(text) = 0 THEN Len(text) ELSE FindNonDigit(text) - 1

\* The inputs the statement has rejected: no byte that is no digit (digits
\* only, or empty), no leading digit, or a text after the leading digits
\* that is not one of the units b, kb, mb, gb, tb.
MustBeRejected(text) ==
    \/ FindNonDigit(text) = 0
    \/ LeadingDigits(text) = 0
    \/ UnitPower(SubSeq(text, LeadingDigits(text) + 1, Len(text))) < 0

\* C34: parse_size returns an error value, and never a size, for every input
\* that has no non-digit character (digits only, or empty), that has no
\* leading digits, or whose text after the leading digits is not exactly one
\* of the recognised units; it returns a size in every other case.
C34_ErrorsAndSizes ==
    fn \in {"util::parse_size", "main::parse_size"} =>
        IF MustBeRejected(arg.size.text)
        THEN ~ret.ok /\ "error" \in DOMAIN ret
        ELSE ret.ok

\* Task i is in the record loop of generate_chunk with a record still to
\* write: it synthesizes and encodes records.
Generating(i) ==
    /\ i < num_threads
    /\ wpc[i] = "loop"
    /\ LoopCondition(BufLen(woutput[i]), ChunkSize)

\* Task i is blocked in pools.rng_pool.lock(), which another task holds.
WaitsOnPool(i) ==
    /\ i < num_threads
    /\ wpc[i] = "lock_pool"
    /\ rng_pool.holder \notin {Unlocked, i}

\* C35: no shard worker waits on a lock held by another shard worker while
\* records are synthesized and encoded (two workers can be generating
\* records at the same time): no worker is blocked on a lock whose holder is
\* in its record loop.
C35_NoLockWhileGenerating ==
    \A i, j \in Workers : ~(WaitsOnPool(i) /\ rng_pool.holder = j /\ Generating(j))

====
